---- MODULE Spec2Model ----
(***************************************************************************)
(* The guided task-creation flow of the chat agent                        *)
(* (backend/src/agent/chat_agent.py) together with the request cycle of   *)
(* ChatService.process_message (backend/src/services/chat_service.py)     *)
(* and the task, category and tag services the flow calls.                *)
(*                                                                         *)
(* Text is modelled as a sequence of characters.  An ASCII character is   *)
(* the one-character string itself; a non-ASCII character is the string   *)
(* naming its code point ("U+0645").  Str turns an ASCII literal into     *)
(* such a sequence.                                                        *)
(***************************************************************************)
EXTENDS Integers, Sequences, FiniteSets, TLC

(***************************************************************************)
(* Python str operations used by the agent                                *)
(***************************************************************************)
\* the sequence <<f[1], ..., f[n]>> of a function on 1..n
Tuple(f) == SubSeq(f, 1, Len(f))
Str(s) == Tuple([i \in 1..Len(s) |-> SubSeq(s, i, i)])

UpperCase ==
    <<"A", "B", "C", "D", "E", "F", "G", "H", "I", "J", "K", "L", "M",
      "N", "O", "P", "Q", "R", "S", "T", "U", "V", "W", "X", "Y", "Z">>
LowerCase ==
    <<"a", "b", "c", "d", "e", "f", "g", "h", "i", "j", "k", "l", "m",
      "n", "o", "p", "q", "r", "s", "t", "u", "v", "w", "x", "y", "z">>
\* the position of the character c in cs, 0 if absent
IndexIn(cs, c) ==
    IF \E i \in 1..Len(cs) : cs[i] = c THEN CHOOSE i \in 1..Len(cs) : cs[i] = c ELSE 0
Digits == {"0", "1", "2", "3", "4", "5", "6", "7", "8", "9"}
Whitespace == {" ", "\t", "\n"}

IsUpper(c) == IndexIn(UpperCase, c) # 0
IsAsciiAlpha(c) == IndexIn(UpperCase \o LowerCase, c) # 0
\* a letter outside ASCII (the Urdu letters): named by its code point
IsNonAscii(c) == Len(c) > 1 /\ c \notin Whitespace
\* the characters \w matches
IsWordChar(c) == IsAsciiAlpha(c) \/ c \in Digits \/ c = "_" \/ IsNonAscii(c)

\* str.lower(), one character
CharAt(cs, i, c) == IF i = 0 THEN c ELSE cs[i]
LowerChar(c) == CharAt(LowerCase, IndexIn(UpperCase, c), c)
\* str.lower()
Lower(s) == Tuple([i \in 1..Len(s) |-> LowerChar(s[i])])

RECURSIVE LStrip(_)
LStrip(s) == IF s # <<>> /\ Head(s) \in Whitespace THEN LStrip(Tail(s)) ELSE s
RECURSIVE RStrip(_)
RStrip(s) ==
    IF s # <<>> /\ s[Len(s)] \in Whitespace THEN RStrip(SubSeq(s, 1, Len(s) - 1)) ELSE s
\* str.strip()
Strip(s) == RStrip(LStrip(s))

\* sub in s
Contains(s, sub) ==
    \E i \in 1..(Len(s) - Len(sub) + 1) : SubSeq(s, i, i + Len(sub) - 1) = sub

\* str.isdigit()
IsDigit(s) == s # <<>> /\ \A i \in 1..Len(s) : s[i] \in Digits

\* str.replace(sub, rep): the occurrences of sub, left to right, not overlapping
RECURSIVE Replace(_, _, _)
Replace(s, sub, rep) ==
    IF Len(s) < Len(sub) \/ sub = <<>> THEN s
    ELSE IF SubSeq(s, 1, Len(sub)) = sub
         THEN rep \o Replace(SubSeq(s, Len(sub) + 1, Len(s)), sub, rep)
         ELSE <<Head(s)>> \o Replace(Tail(s), sub, rep)

\* str.title(): a letter is upper-cased after a character that has no case
UpperChar(c) == CharAt(UpperCase, IndexIn(LowerCase, c), c)
TitleCase(s) ==
    Tuple([i \in 1..Len(s) |->
        IF i = 1 \/ ~IsAsciiAlpha(s[i - 1]) THEN UpperChar(s[i]) ELSE LowerChar(s[i])])

\* str.split(): the maximal runs of non-whitespace characters
RECURSIVE SplitWs(_)
SplitWs(s) ==
    LET t == LStrip(s)
        n == IF \E i \in 1..Len(t) : t[i] \in Whitespace
             THEN (CHOOSE i \in 1..Len(t) :
                       t[i] \in Whitespace /\ \A j \in 1..(i - 1) : t[j] \notin Whitespace) - 1
             ELSE Len(t)
    IN IF t = <<>> THEN <<>>
       ELSE <<SubSeq(t, 1, n)>> \o SplitWs(SubSeq(t, n + 1, Len(t)))

\* re.findall(r'#(\w+)', s): at each '#' followed by word characters, the
\* longest run of them; the scan goes on after the run
RECURSIVE FindHashtags(_)
FindHashtags(s) ==
    IF s = <<>> THEN <<>>
    ELSE IF Head(s) = "#" /\ Len(s) >= 2 /\ IsWordChar(s[2])
         THEN LET r == Tail(s)
                  n == IF \E i \in 1..Len(r) : ~IsWordChar(r[i])
                       THEN (CHOOSE i \in 1..Len(r) :
                                 ~IsWordChar(r[i]) /\ \A j \in 1..(i - 1) : IsWordChar(r[j])) - 1
                       ELSE Len(r)
              IN <<SubSeq(r, 1, n)>> \o FindHashtags(SubSeq(r, n + 1, Len(r)))
         ELSE FindHashtags(Tail(s))

\* str.strip(chars)
RECURSIVE StripChars(_, _)
StripChars(s, cs) ==
    IF s # <<>> /\ Head(s) \in cs THEN StripChars(Tail(s), cs)
    ELSE IF s # <<>> /\ s[Len(s)] \in cs THEN StripChars(SubSeq(s, 1, Len(s) - 1), cs)
    ELSE s

\* int(s) for a string of digits
DigitValue(c) == IndexIn(<<"0", "1", "2", "3", "4", "5", "6", "7", "8", "9">>, c) - 1
RECURSIVE ToInt(_)
ToInt(s) == IF s = <<>> THEN 0 ELSE 10 * ToInt(SubSeq(s, 1, Len(s) - 1)) + DigitValue(s[Len(s)])

(***************************************************************************)
(* The Urdu words of the agent's keyword lists and patterns, by code point *)
(***************************************************************************)
Ur == [
    mansookh   |-> <<"U+0645", "U+0646", "U+0633", "U+0648", "U+062E">>,
    ruko       |-> <<"U+0631", "U+06A9", "U+0648">>,
    chhorein   |-> <<"U+0686", "U+06BE", "U+0648", "U+0691", "U+06CC", "U+06BA">>,
    nahin      |-> <<"U+0646", "U+06C1", "U+06CC", "U+06BA">>,
    kal        |-> <<"U+06A9", "U+0644">>,
    agla_hafta |-> <<"U+0627", "U+06AF", "U+0644", "U+0627", " ", "U+06C1", "U+0641", "U+062A", "U+06C1">>,
    agle_hafte |-> <<"U+0627", "U+06AF", "U+0644", "U+06D2", " ", "U+06C1", "U+0641", "U+062A", "U+06D2">>,
    fori       |-> <<"U+0641", "U+0648", "U+0631", "U+06CC">>,
    aham       |-> <<"U+0627", "U+06C1", "U+0645">>,
    darmiyana  |-> <<"U+062F", "U+0631", "U+0645", "U+06CC", "U+0627", "U+0646", "U+06C1">>,
    kam        |-> <<"U+06A9", "U+0645">>,
    rozana     |-> <<"U+0631", "U+0648", "U+0632", "U+0627", "U+0646", "U+06C1">>,
    haftawar   |-> <<"U+06C1", "U+0641", "U+062A", "U+06C1", " ", "U+0648", "U+0627", "U+0631">>,
    mahana     |-> <<"U+0645", "U+0627", "U+06C1", "U+0627", "U+0646", "U+06C1">>,
    aap_likhein |-> <<"U+0622", "U+067E", " ", "U+0644", "U+06A9", "U+06BE", "U+06CC", "U+06BA">>,
    khud_likho |-> <<"U+062E", "U+0648", "U+062F", " ", "U+0644", "U+06A9", "U+06BE", "U+0648">>,
    task       |-> <<"U+0679", "U+0627", "U+0633", "U+06A9">>,
    kaam       |-> <<"U+06A9", "U+0627", "U+0645">>,
    shamil     |-> <<"U+0634", "U+0627", "U+0645", "U+0644">>,
    banaein    |-> <<"U+0628", "U+0646", "U+0627", "U+0626", "U+06CC", "U+06BA">>,
    naya       |-> <<"U+0646", "U+06CC", "U+0627">>,
    nai        |-> <<"U+0646", "U+0626", "U+06CC">>,
    mere       |-> <<"U+0645", "U+06CC", "U+0631", "U+06D2">>,
    tamam      |-> <<"U+062A", "U+0645", "U+0627", "U+0645">>,
    saare      |-> <<"U+0633", "U+0627", "U+0631", "U+06D2">>,
    sab        |-> <<"U+0633", "U+0628">>,
    dikhaein   |-> <<"U+062F", "U+06A9", "U+06BE", "U+0627", "U+0626", "U+06CC", "U+06BA">>,
    dikhao     |-> <<"U+062F", "U+06A9", "U+06BE", "U+0627", "U+0624">>,
    namukammal |-> <<"U+0646", "U+0627", "U+0645", "U+06A9", "U+0645", "U+0644">>,
    baqi       |-> <<"U+0628", "U+0627", "U+0642", "U+06CC">>,
    mukammal   |-> <<"U+0645", "U+06A9", "U+0645", "U+0644">>,
    khatam     |-> <<"U+062E", "U+062A", "U+0645">>,
    karein     |-> <<"U+06A9", "U+0631", "U+06CC", "U+06BA">>,
    karo       |-> <<"U+06A9", "U+0631", "U+0648">>,
    hazf       |-> <<"U+062D", "U+0630", "U+0641">>,
    delete     |-> <<"U+0688", "U+06CC", "U+0644", "U+06CC", "U+0679">> ]

(***************************************************************************)
(* Regular expressions as Python's re matches them: a backtracking        *)
(* matcher that returns, in the order the backtracking tries them, the    *)
(* positions at which a match of r that starts at position i of s can end. *)
(***************************************************************************)
Chr(cs) == [t |-> "chr", cs |-> cs]
NotChr(cs) == [t |-> "not", cs |-> cs]
AnyChar == [t |-> "any"]
Cat(rs) == [t |-> "cat", rs |-> rs]
Alt(rs) == [t |-> "alt", rs |-> rs]
Star(r) == [t |-> "star", r |-> r]
LazyStar(r) == [t |-> "lazy", r |-> r]
Empty == Cat(<<>>)
Opt(r) == Alt(<<r, Empty>>)
Plus(r) == Cat(<<r, Star(r)>>)
LazyPlus(r) == Cat(<<r, LazyStar(r)>>)
Lit(s) == [t |-> "lit", s |-> s]
Word(a) == Lit(Str(a))
Words(ws) == Alt([i \in 1..Len(ws) |-> Word(ws[i])])
Ws0 == Star(Chr(Whitespace))
Ws1 == Plus(Chr(Whitespace))

RECURSIVE Ends(_, _, _)
RECURSIVE EndsEach(_, _, _)
RECURSIVE EndsCat(_, _, _, _)
RECURSIVE EndsAlt(_, _, _, _)
Ends(r, s, i) ==
    CASE r.t = "chr" -> IF i <= Len(s) /\ s[i] \in r.cs THEN <<i + 1>> ELSE <<>>
      [] r.t = "not" -> IF i <= Len(s) /\ s[i] \notin r.cs THEN <<i + 1>> ELSE <<>>
      [] r.t = "any" -> IF i <= Len(s) /\ s[i] # "\n" THEN <<i + 1>> ELSE <<>>
      [] r.t = "lit" -> IF i + Len(r.s) - 1 <= Len(s) /\ SubSeq(s, i, i + Len(r.s) - 1) = r.s
                        THEN <<i + Len(r.s)>> ELSE <<>>
      [] r.t = "cat" -> EndsCat(r.rs, 1, s, <<i>>)
      [] r.t = "alt" -> EndsAlt(r.rs, 1, s, i)
      [] r.t = "star" ->
            EndsEach(r, s, SelectSeq(Ends(r.r, s, i), LAMBDA p : p > i)) \o <<i>>
      [] r.t = "lazy" ->
            <<i>> \o EndsEach(r, s, SelectSeq(Ends(r.r, s, i), LAMBDA p : p > i))
EndsEach(r, s, ps) ==
    IF ps = <<>> THEN <<>> ELSE Ends(r, s, Head(ps)) \o EndsEach(r, s, Tail(ps))
EndsCat(rs, k, s, ps) ==
    IF k > Len(rs) THEN ps ELSE EndsCat(rs, k + 1, s, EndsEach(rs[k], s, ps))
EndsAlt(rs, k, s, i) ==
    IF k > Len(rs) THEN <<>> ELSE Ends(rs[k], s, i) \o EndsAlt(rs, k + 1, s, i)

\* r matches s from position i up to the end of s (the pattern's final $)
ToEnd(r, s, i) == SelectSeq(Ends(r, s, i), LAMBDA e : e = Len(s) + 1) # <<>>

\* re.match(r'^pre(grp)post$', s): the spans <<a, b>> of group 1 in the order
\* the backtracking reaches them; the match is the first one
SpansFrom(a, bs) == [k \in 1..Len(bs) |-> <<a, bs[k]>>]
RECURSIVE GroupSpans(_, _, _, _)
GroupSpans(as, grp, post, s) ==
    IF as = <<>> THEN <<>>
    ELSE SpansFrom(Head(as), SelectSeq(Ends(grp, s, Head(as)), LAMBDA b : ToEnd(post, s, b)))
           \o GroupSpans(Tail(as), grp, post, s)
Spans(pat, s) == GroupSpans(Ends(pat.pre, s, 1), pat.grp, pat.post, s)
ReMatches(pat, s) == Spans(pat, s) # <<>>
SpanText(s, m) == SubSeq(s, m[1], m[2] - 1)
ReGroup1(pat, s) == SpanText(s, Head(Spans(pat, s)))
Pattern(pre, grp, post) == [pre |-> pre, grp |-> grp, post |-> post]

\* re.sub(r, repl, s) for an r that matches no empty text
RECURSIVE ReSub(_, _, _, _)
ReSub(r, repl, s, i) ==
    IF i > Len(s) THEN <<>>
    ELSE IF Ends(r, s, i) # <<>> THEN repl \o ReSub(r, repl, s, Head(Ends(r, s, i)))
    ELSE <<s[i]>> \o ReSub(r, repl, s, i + 1)

(***************************************************************************)
(* Python values: None is the string "None" where the other values are     *)
(* text or numbers; an Optional[Dict] is <<>> (None) or <<d>>.  A dict is   *)
(* a function on its keys.                                                 *)
(***************************************************************************)
None == "None"
EmptyDict == [k \in {} |-> None]
DictGet(d, k, default) == IF k \in DOMAIN d THEN d[k] ELSE default
\* dict.update(kw): the keys of kw replace or extend those of d
DictUpdate(d, kw) == kw @@ d
\* the truth value of d.get(k) for a text or None value
Truthy(d, k) == k \in DOMAIN d /\ d[k] # None /\ d[k] # <<>>

(***************************************************************************)
(* ChatAgent._detect_direct_intent                                         *)
(***************************************************************************)
Quote == Chr({"\"", "'"})
TitleLead == <<Ws0, Opt(Chr({":", "-"})), Ws0, Opt(Quote)>>
TitlePattern(head) == Pattern(Cat(head \o TitleLead), LazyPlus(AnyChar), Opt(Quote))
Bare(rs) == Pattern(Cat(rs \o <<Ws0>>), Empty, Empty)
UrTask == Alt(<<Lit(Ur.task), Lit(Ur.kaam)>>)
UrShow == Opt(Alt(<<Lit(Ur.dikhaein), Lit(Ur.dikhao)>>))
Numbered(head, tail) ==
    Pattern(Cat(head \o <<Ws0, Opt(Chr({"#"}))>>), Plus(Chr(Digits)), Cat(tail \o <<Ws0>>))
OptWord(a) == Opt(Cat(<<Word(a), Ws1>>))
TasksWord == Cat(<<Word("task"), Opt(Word("s"))>>)

add_task_patterns == <<
    TitlePattern(<<Words(<<"add", "create", "new", "make">>), Ws1, OptWord("a"), Word("task")>>),
    TitlePattern(<<Word("task"), Ws1, Words(<<"add", "create", "new">>)>>),
    TitlePattern(<<UrTask, Ws1, Alt(<<Lit(Ur.shamil), Lit(Ur.banaein), Lit(Ur.naya)>>)>>),
    TitlePattern(<<Alt(<<Lit(Ur.shamil), Lit(Ur.banaein)>>), Ws1, UrTask>>) >>

simple_add_patterns == <<
    Bare(<<Words(<<"add", "create", "new", "make">>), Ws1, OptWord("a"), Word("task")>>),
    Bare(<<UrTask, Ws1, Alt(<<Lit(Ur.shamil), Lit(Ur.banaein)>>)>>),
    Bare(<<Alt(<<Lit(Ur.naya), Lit(Ur.nai)>>), Ws1, UrTask>>) >>

ShowHead == <<Words(<<"show", "list", "view">>), Ws1, OptWord("me"), OptWord("all"), OptWord("my")>>
list_patterns == <<
    <<Bare(<<Words(<<"show", "list", "view", "display", "get">>), Ws1, OptWord("me"),
             OptWord("all"), OptWord("my"), OptWord("the"), TasksWord>>), "all">>,
    <<Bare(ShowHead \o <<Words(<<"incomplete", "pending", "active", "remaining">>), Ws1,
                         TasksWord>>), "incomplete">>,
    <<Bare(ShowHead \o <<Alt(<<Cat(<<Word("complete"), Opt(Word("d"))>>), Word("done"),
                               Word("finished")>>), Ws1, TasksWord>>), "completed">>,
    <<Pattern(Cat(<<Opt(Cat(<<Word("what"), Ws1, Word("are"), Ws1>>)), OptWord("my"),
                    OptWord("all"), TasksWord, Ws0, Opt(Chr({"?"}))>>), Empty, Empty), "all">>,
    <<Bare(<<TasksWord>>), "all">>,
    <<Bare(<<Word("my"), Ws1, TasksWord>>), "all">>,
    <<Bare(<<Word("all"), Ws1, OptWord("my"), TasksWord>>), "all">>,
    <<Bare(<<Opt(Cat(<<Lit(Ur.mere), Ws1>>)), Alt(<<Lit(Ur.tamam), Lit(Ur.saare), Lit(Ur.sab)>>),
             Ws1, UrTask, Ws0, UrShow>>), "all">>,
    <<Bare(<<Alt(<<Lit(Ur.namukammal), Lit(Ur.baqi)>>), Ws1, UrTask, Ws0, UrShow>>),
      "incomplete">>,
    <<Bare(<<Alt(<<Lit(Ur.mukammal), Lit(Ur.khatam)>>), Ws1, UrTask, Ws0, UrShow>>),
      "completed">> >>

UrDo == Opt(Alt(<<Lit(Ur.karein), Lit(Ur.karo)>>))
complete_patterns == <<
    Numbered(<<Alt(<<Word("complete"), Word("finish"), Word("done"),
                     Cat(<<Word("mark"), Ws1, OptWord("as"), Words(<<"done", "complete">>)>>)>>),
               Ws1, Word("task")>>, <<>>),
    Numbered(<<Word("task")>>,
             <<Ws1, Alt(<<Word("complete"), Word("done"),
                          Cat(<<Word("finishe"), Opt(Word("d"))>>)>>)>>),
    Numbered(<<UrTask>>, <<Ws1, Alt(<<Lit(Ur.mukammal), Lit(Ur.khatam)>>), Ws0, UrDo>>) >>

delete_patterns == <<
    Numbered(<<Words(<<"delete", "remove", "cancel">>), Ws1, Word("task")>>, <<>>),
    Numbered(<<Word("task")>>, <<Ws1, Words(<<"delete", "remove">>)>>),
    Numbered(<<UrTask>>, <<Ws1, Alt(<<Lit(Ur.hazf), Lit(Ur.delete)>>), Ws0, UrDo>>) >>

\* the first pattern of ps that accepts s, in <<..>>; <<>> when none does
First(ps) == IF ps = <<>> THEN <<>> ELSE <<Head(ps)>>
FirstMatch(ps, s, Accepts(_, _)) == First(SelectSeq(ps, LAMBDA pat : Accepts(pat, s)))

\* a creation pattern counts only when the title it captures is not empty
TitleIn(s, spans) ==
    IF spans = <<>> THEN <<>> ELSE StripChars(Strip(SpanText(s, Head(spans))), {"\"", "'"})
TitleOf(pat, s) == TitleIn(s, Spans(pat, s))
HasTitle(pat, s) == TitleOf(pat, s) # <<>>
ListMatches(entry, s) == ReMatches(entry[1], s)

\* the detector without the qualifier of a listing
DetectUnqualified(msg_lower, a, b, l, c, d) ==
    IF a # <<>> THEN <<[action |-> "start_guided_task",
                        initial_title |-> TitleOf(a[1], msg_lower)]>>
    ELSE IF b # <<>> THEN <<[action |-> "start_guided_task"]>>
    ELSE IF l # <<>> THEN <<[action |-> "list_tasks", filter |-> Str("all")]>>
    ELSE IF c # <<>> THEN <<[action |-> "complete_task",
                             task_id |-> ToInt(ReGroup1(c[1], msg_lower))]>>
    ELSE IF d # <<>> THEN <<[action |-> "delete_task",
                             task_id |-> ToInt(ReGroup1(d[1], msg_lower))]>>
    ELSE <<>>

DetectFirst(msg_lower, a, b, l, c, d) ==
    IF a # <<>> THEN <<[action |-> "start_guided_task",
                        initial_title |-> TitleOf(a[1], msg_lower)]>>
    ELSE IF b # <<>> THEN <<[action |-> "start_guided_task"]>>
    ELSE IF l # <<>> THEN <<[action |-> "list_tasks", filter |-> Str(l[1][2])]>>
    ELSE IF c # <<>> THEN <<[action |-> "complete_task",
                             task_id |-> ToInt(ReGroup1(c[1], msg_lower))]>>
    ELSE IF d # <<>> THEN <<[action |-> "delete_task",
                             task_id |-> ToInt(ReGroup1(d[1], msg_lower))]>>
    ELSE <<>>
Detect(msg_lower) ==
    DetectFirst(msg_lower,
                FirstMatch(add_task_patterns, msg_lower, HasTitle),
                FirstMatch(simple_add_patterns, msg_lower, ReMatches),
                FirstMatch(list_patterns, msg_lower, ListMatches),
                FirstMatch(complete_patterns, msg_lower, ReMatches),
                FirstMatch(delete_patterns, msg_lower, ReMatches))
_detect_direct_intent(message) == Detect(Strip(Lower(message)))

(***************************************************************************)
(* Dates.  A datetime is a tuple naming the instant; the wall clock        *)
(* (datetime.now(), datetime.utcnow()) is the symbol it is read from.      *)
(***************************************************************************)
\* the texts dateutil's parser.parse(text, fuzzy=True) accepts among the
\* inputs of the model, with the datetime it returns; it raises on the others
DateutilTable == [text |-> Str("2025-12-31"), value |-> <<"datetime", "2025-12-31", "00:00:00">>]
DateutilAccepts(text) == text = DateutilTable.text
EndOfDay(dt) == <<dt[1], dt[2], "23:59:59">>

InPattern ==
    Pattern(Cat(<<Word("in"), Word(" ")>>), Plus(Chr(Digits)),
            Cat(<<Word(" "), Words(<<"day", "days", "week", "weeks", "month", "months">>)>>))
\* re.search(in_pattern, s): the first start position with a match, 0 if none
Range(seq) == {seq[k] : k \in 1..Len(seq)}
RECURSIVE SearchFrom(_, _, _)
SearchFrom(pat, s, i) ==
    IF i > Len(s) THEN 0
    ELSE IF \E a \in Range(Ends(pat.pre, s, i)) :
              \E b \in Range(Ends(pat.grp, s, a)) : Ends(pat.post, s, b) # <<>>
         THEN i
         ELSE SearchFrom(pat, s, i + 1)
\* group 1 (greedy digits) of the match that starts at i, after the 3
\* characters of "in ", and group 2, after group 1 and the space
InAmount(s, i) == SubSeq(s, i + 3, Head(Ends(InPattern.grp, s, i + 3)) - 1)
InUnit(s, i, amount) ==
    SubSeq(s, i + 4 + Len(amount), Head(Ends(InPattern.post, s, i + 3 + Len(amount))) - 1)

Weekdays == <<"monday", "tuesday", "wednesday", "thursday", "friday", "saturday", "sunday">>

\* utils/date_parser.parse_natural_date: a datetime or None
DateIn(amount, unit) ==
    <<"datetime",
      <<"utcnow+", amount,
        IF Contains(unit, Str("day")) THEN "d"
        ELSE IF Contains(unit, Str("week")) THEN "w" ELSE "m">>,
      "23:59:59">>
DateNext(text, days) ==
    IF days # {}
    THEN <<"datetime", <<"next", Weekdays[CHOOSE k \in days : \A j \in days : k <= j]>>,
           "23:59:59">>
    ELSE IF DateutilAccepts(text)
         THEN IF DateutilTable.value[3] = "00:00:00" THEN EndOfDay(DateutilTable.value)
              ELSE DateutilTable.value
         ELSE None
DateRelative(text, text_lower, m, amount) ==
    IF m # 0 THEN DateIn(amount, InUnit(text_lower, m, amount))
    ELSE DateNext(text, {k \in 1..7 : Contains(text_lower, Str("next ") \o Str(Weekdays[k]))})
DateNamed(text, text_lower, m) ==
    IF text_lower = Str("today") THEN <<"datetime", "utcnow", "23:59:59">>
    ELSE IF text_lower = Str("tomorrow") THEN <<"datetime", "utcnow+1d", "23:59:59">>
    ELSE IF text_lower = Str("next week") THEN <<"datetime", "utcnow+1w", "23:59:59">>
    ELSE IF text_lower = Str("next month") THEN <<"datetime", "utcnow+1m", "23:59:59">>
    ELSE DateRelative(text, text_lower, m, InAmount(text_lower, m))
parse_natural_date(text) ==
    IF Strip(text) = <<>> THEN None
    ELSE DateNamed(text, Strip(Lower(text)), SearchFrom(InPattern, Strip(Lower(text)), 1))

\* datetime.isoformat() and datetime.fromisoformat(): fromisoformat gives back
\* the datetime isoformat was taken of, reads the one ISO-8601 date among the
\* texts of the model, and raises ValueError (here: None) on the others
isoformat(dt) == <<"isoformat", dt>>
fromisoformat(text) ==
    IF text # <<>> /\ text[1] = "isoformat" THEN text[2]
    ELSE IF text = DateutilTable.text THEN DateutilTable.value
    ELSE None

(***************************************************************************)
(* ChatAgent._parse_user_response                                          *)
(***************************************************************************)
SkipWords == {Str("skip"), Ur.chhorein, Ur.nahin, Str("no"), Str("none"), Str("-")}

priority_map(k) ==
    IF k \in {Str("1"), Str("critical"), Ur.fori} THEN "critical"
    ELSE IF k \in {Str("2"), Str("high"), Ur.aham} THEN "high"
    ELSE IF k \in {Str("3"), Str("medium"), Ur.darmiyana} THEN "medium"
    ELSE IF k \in {Str("4"), Str("low"), Ur.kam} THEN "low"
    ELSE "medium"

recurrence_map(k) ==
    IF k \in {Str("1"), Str("daily"), Ur.rozana} THEN "daily"
    ELSE IF k \in {Str("2"), Str("weekly"), Ur.haftawar} THEN "weekly"
    ELSE IF k \in {Str("3"), Str("monthly"), Ur.mahana} THEN "monthly"
    ELSE None

\* field "category": by number, then by name, then a new category name
CategoryOf(category) == [value |-> category.id, name |-> category.name]
CategoryNamed(message, named) ==
    IF named # <<>> THEN CategoryOf(named[1]) ELSE [new_category |-> Strip(message)]
CategoryIn(message, msg_lower, categories) ==
    IF IsDigit(msg_lower) /\ 0 <= ToInt(msg_lower) - 1 /\ ToInt(msg_lower) - 1 < Len(categories)
    THEN CategoryOf(categories[ToInt(msg_lower)])
    ELSE CategoryNamed(message,
                       First(SelectSeq(categories, LAMBDA c : Lower(c.name) = msg_lower)))
ParseCategory(message, pending) ==
    CategoryIn(message, Strip(Lower(message)),
               DictGet(pending, "_available_categories", <<>>))

\* field "due_date": the two quick options, parse_natural_date, the ISO format
DueDateIso(iso) == IF iso # None THEN [value |-> iso] ELSE [value |-> None, error |-> TRUE]
DueDateParsed(message, msg_lower, parsed) ==
    IF msg_lower \in {Str("tomorrow"), Ur.kal} THEN [value |-> <<"datetime", "now+1d">>]
    ELSE IF msg_lower \in {Str("next week"), Ur.agla_hafta, Ur.agle_hafte}
         THEN [value |-> <<"datetime", "now+7d">>]
    ELSE IF parsed # None THEN [value |-> parsed]
    ELSE DueDateIso(fromisoformat(Replace(message, Str("Z"), Str("+00:00"))))
ParseDueDate(message) ==
    DueDateParsed(message, Strip(Lower(message)), parse_natural_date(message))

\* field "tags": hashtags when the message has a '#', else the words
ParseTags(message) ==
    IF \E i \in 1..Len(message) : message[i] = "#"
    THEN [value |-> FindHashtags(message)]
    ELSE [value |-> SplitWs(Replace(message, Str(","), Str(" ")))]

_parse_user_response(message, field, pending) ==
    LET msg_lower == Strip(Lower(message))
    IN IF msg_lower \in SkipWords THEN [skip |-> TRUE]
       ELSE CASE field = "priority" -> [value |-> priority_map(msg_lower)]
              [] field = "recurrence" -> [value |-> recurrence_map(msg_lower)]
              [] field = "category" -> ParseCategory(message, pending)
              [] field = "due_date" -> ParseDueDate(message)
              [] field = "tags" -> ParseTags(message)
              [] OTHER -> [value |-> Strip(message)]

(***************************************************************************)
(* The Conversation row (models/conversation.py) and the agent's accessors *)
(***************************************************************************)
IDLE == "idle"
AWAITING_TITLE == "awaiting_title"
AWAITING_DESCRIPTION == "awaiting_description"
AWAITING_CATEGORY == "awaiting_category"
AWAITING_PRIORITY == "awaiting_priority"
AWAITING_DUE_DATE == "awaiting_due_date"
AWAITING_RECURRENCE == "awaiting_recurrence"
AWAITING_TAGS == "awaiting_tags"
AWAITING_CONFIRMATION == "awaiting_confirmation"

\* json.dumps / json.loads of the pending dict: text, lists and numbers come
\* back as they went in
json_dumps(data) == <<"json", data>>
json_loads(text) == text[2]

get_pending_task(conv) ==
    IF conv.pending_task_json # None THEN json_loads(conv.pending_task_json) ELSE EmptyDict
set_pending_task(conv, data) ==
    [conv EXCEPT !.pending_task_json = IF DOMAIN data # {} THEN json_dumps(data) ELSE None]

_get_state(conv) == IF conv.guided_state # None THEN conv.guided_state ELSE IDLE
_set_state(conv, state) == [conv EXCEPT !.guided_state = state]
_get_pending_task(conv) == get_pending_task(conv)
\* the update that keeps only the new fields
_update_pending_task_only(conv, kw) == set_pending_task(conv, kw)
\* the reset that leaves the pending fields
_clear_pending_task_state(conv) == [conv EXCEPT !.guided_state = IDLE]
_update_pending_task(conv, kw) == set_pending_task(conv, DictUpdate(get_pending_task(conv), kw))
_clear_pending_task(conv) == set_pending_task([conv EXCEPT !.guided_state = IDLE], EmptyDict)

(***************************************************************************)
(* The tables and the services.  db is the record of the five tables and   *)
(* of the last id each autoincrement column has given out.  A service      *)
(* call returns [raised, db, ...]; when it raises, db is as it was.        *)
(* A NULL integer column is 0 (the ids start at 1).                        *)
(***************************************************************************)
Raise(db) == [raised |-> TRUE, db |-> db]

\* TaskService.create_task; fails: the insert raises
TaskService_create_task(db, task_data, user_id, fails) ==
    LET id == db.seq.tasks + 1
        task == [id |-> id,
                 user_id |-> user_id,
                 title |-> task_data.title,
                 description |-> task_data.description,
                 is_completed |-> task_data.is_completed,
                 priority |-> IF task_data.priority # None THEN task_data.priority ELSE "medium",
                 due_date |-> task_data.due_date,
                 category_id |-> task_data.category_id,
                 recurrence_pattern |-> task_data.recurrence_pattern,
                 recurrence_interval |-> task_data.recurrence_interval]
    IN IF fails THEN Raise(db)
       ELSE [raised |-> FALSE,
             db |-> [db EXCEPT !.tasks = Append(@, task), !.seq.tasks = id],
             task |-> task]

\* SQL ILIKE: case-insensitive, % any run of characters, _ any one character
RECURSIVE Like(_, _)
Like(v, pat) ==
    IF pat = <<>> THEN v = <<>>
    ELSE IF Head(pat) = "%" THEN Like(v, Tail(pat)) \/ (v # <<>> /\ Like(Tail(v), pat))
    ELSE v # <<>> /\ Head(pat) \in {"_", Head(v)} /\ Like(Tail(v), Tail(pat))
\* the comparison that tells upper case from lower case
LikeCased(v, pat) == Like(v, pat)
ILike(v, pat) == Like(Lower(v), Lower(pat))

\* the rows of a table that satisfy Test, in table order
Rows(table, Test(_)) == SelectSeq(table, Test)

\* CategoryService.get_category_by_name: the first row or <<>>
CategoryService_get_category_by_name(db, user_id, category_name) ==
    LET found == Rows(db.categories,
                      LAMBDA c : c.user_id = user_id /\ ILike(c.name, category_name))
    IN IF found = <<>> THEN <<>> ELSE <<Head(found)>>

\* CategoryService.create_category
CategoryService_create_category(db, user_id, category_data, fails) ==
    LET id == db.seq.categories + 1
        category == [id |-> id, user_id |-> user_id, name |-> category_data.name,
                     color |-> category_data.color, icon |-> category_data.icon]
    IN IF fails THEN Raise(db)
       ELSE [raised |-> FALSE,
             db |-> [db EXCEPT !.categories = Append(@, category), !.seq.categories = id],
             category |-> category]

\* CategoryService.create_or_get_category
CategoryService_create_or_get_category(db, user_id, category_name, color, icon, fails) ==
    LET existing == CategoryService_get_category_by_name(db, user_id, category_name)
    IN IF existing # <<>> THEN [raised |-> FALSE, db |-> db, category |-> existing[1]]
       ELSE CategoryService_create_category(
                db, user_id, [name |-> category_name, color |-> color, icon |-> icon], fails)

\* TagService.create_tag: the user's tag of that lower-cased name, made if missing
TagService_create_tag(db, tag_data, user_id, fails) ==
    LET existing == Rows(db.tags,
                         LAMBDA t : t.user_id = user_id /\ t.name = Lower(tag_data.name))
        id == db.seq.tags + 1
        tag == [id |-> id, name |-> Lower(tag_data.name), user_id |-> user_id]
    IN IF fails THEN Raise(db)
       ELSE IF existing # <<>> THEN [raised |-> FALSE, db |-> db, tag |-> Head(existing)]
       ELSE [raised |-> FALSE,
             db |-> [db EXCEPT !.tags = Append(@, tag), !.seq.tags = id],
             tag |-> tag]

\* TagService.add_tag_to_task
TagService_add_tag_to_task(db, task_id, tag_id, fails) ==
    LET row == [task_id |-> task_id, tag_id |-> tag_id]
    IN IF fails THEN Raise(db)
       ELSE IF \E k \in 1..Len(db.task_tags) : db.task_tags[k] = row
            THEN [raised |-> FALSE, db |-> db]
            ELSE [raised |-> FALSE, db |-> [db EXCEPT !.task_tags = Append(@, row)]]

(***************************************************************************)
(* ChatAgent: the guided flow.  self is the agent: its conversation row,   *)
(* its language and user, and the database its session works on.  A        *)
(* method returns self as it leaves it, the reply, and the collaborators   *)
(* it called.  env is what the outside world does during the request.      *)
(***************************************************************************)
\* the text of a reply: the language it is written in, its English wording
\* and the values formatted into it
Text(language, wording, values) == <<language, wording, values>>

Returned(self, reply, calls) == [self |-> self, reply |-> reply, calls |-> calls]

_get_available_categories(self) == <<>>

_format_category_options(self) ==
    LET categories == _get_available_categories(self)
    IN [self |-> [self EXCEPT !.conversation =
                     _update_pending_task(@, [_available_categories |-> categories])],
        text |-> IF categories = <<>>
                 THEN Text(self.language, "No categories available", <<>>)
                 ELSE Text(self.language, "Select a category", categories)]

desc_prefix_ur == <<"U+062A", "U+0641", "U+0635", "U+06CC", "U+0644", ":">>
fallback_tail_ur ==
    <<" ", "U+06A9", "U+0627", " ", "U+06A9", "U+0627", "U+0645", " ",
      "U+0645", "U+06A9", "U+0645", "U+0644", " ", "U+06A9", "U+0631", "U+06CC", "U+06BA">>

\* the generation that gives an empty description when the call fails
_generate_description_blank(self, title, env) ==
    IF env.description_fails THEN <<>>
    ELSE Strip(Replace(Replace(Strip(env.description), Str("Description:"), <<>>),
                       desc_prefix_ur, <<>>))

\* env.description is the text the completion API answers with when it does
\* not fail
_generate_description(self, title, env) ==
    IF env.description_fails
    THEN IF self.language = "ur" THEN <<"'">> \o title \o <<"'">> \o fallback_tail_ur
         ELSE Str("Complete the task: ") \o title
    ELSE Strip(Replace(Replace(Strip(env.description), Str("Description:"), <<>>),
                       desc_prefix_ur, <<>>))

generate_keywords ==
    {Str("write"), Str("generate"), Str("create"), Str("suggest"), Str("you write"),
     Str("tum likho"), Ur.aap_likhein, Ur.khud_likho}

\* the title step without the check for an empty title
GuidedTitleUnchecked(self, message) ==
    Returned([self EXCEPT !.conversation =
                 _set_state(_update_pending_task(@, [title |-> Strip(message)]),
                            AWAITING_DESCRIPTION)],
             [type |-> "guided_step", step |-> "description",
              content |-> Text(self.language, "Title: Now, enter a description",
                               <<Strip(message)>>)],
             {})

GuidedTitle(self, message) ==
    LET title == Strip(message)
    IN IF title = <<>>
       THEN Returned(self,
                     [type |-> "guided_step",
                      content |-> Text(self.language, "Please enter the task title", <<>>)],
                     {})
       ELSE Returned([self EXCEPT !.conversation =
                         _set_state(_update_pending_task(@, [title |-> title]),
                                    AWAITING_DESCRIPTION)],
                     [type |-> "guided_step", step |-> "description",
                      content |-> Text(self.language, "Title: Now, enter a description",
                                       <<title>>)],
                     {})

\* the conversation once the description step has saved what it keeps
DescriptionSaved(self, parsed, should_generate, env) ==
    IF should_generate
    THEN _update_pending_task(
             self.conversation,
             [description |->
                 _generate_description(
                     self, DictGet(_get_pending_task(self.conversation), "title", <<>>), env)])
    ELSE IF ~DictGet(parsed, "skip", FALSE)
         THEN _update_pending_task(self.conversation,
                                   [description |-> DictGet(parsed, "value", <<>>)])
         ELSE self.conversation

\* the reply of the description step, once the category options are written
DescriptionReply(self, options, pending, calls) ==
    Returned(options.self,
             [type |-> "guided_step", step |-> "category",
              content |-> Text(self.language, "Title: Description:",
                               <<DictGet(pending, "title", <<>>),
                                 IF Truthy(pending, "description")
                                 THEN pending.description ELSE <<>>,
                                 options.text>>)],
             calls)

DescriptionOptions(self, conv1, should_generate) ==
    DescriptionReply(self,
                     _format_category_options(
                         [self EXCEPT !.conversation = _set_state(conv1, AWAITING_CATEGORY)]),
                     _get_pending_task(conv1),
                     IF should_generate THEN {"_generate_description"} ELSE {})

ShouldGenerate(message) == \E kw \in generate_keywords : Contains(Strip(Lower(message)), kw)

GuidedDescription(self, message, env) ==
    DescriptionOptions(
        self,
        DescriptionSaved(
            self,
            _parse_user_response(message, "description", _get_pending_task(self.conversation)),
            ShouldGenerate(message), env),
        ShouldGenerate(message))

\* the category step creating the category it is given the name of
GuidedCategoryCreating(self, message) ==
    LET parsed == _parse_user_response(message, "category",
                                       _get_pending_task(self.conversation))
        named == ~DictGet(parsed, "skip", FALSE) /\ Truthy(parsed, "new_category")
        Then ==
            IF DictGet(parsed, "skip", FALSE) THEN self.conversation
            ELSE IF named
                 THEN _update_pending_task(self.conversation,
                          [new_category_name |-> parsed.new_category])
                 ELSE IF "value" \in DOMAIN parsed
                      THEN _update_pending_task(self.conversation,
                               [category_id |-> parsed.value, category_name |-> parsed.name])
                      ELSE self.conversation
    IN Returned([self EXCEPT
                    !.conversation = _set_state(Then, AWAITING_PRIORITY),
                    !.db = IF named
                           THEN CategoryService_create_or_get_category(
                                    @, self.user_id, TitleCase(Strip(parsed.new_category)),
                                    "#8B5CF6", "folder", FALSE).db
                           ELSE @],
                [type |-> "guided_step", step |-> "priority",
                 content |-> Text(self.language, "Category selected. Select priority", <<>>)],
                {})

\* the category step going on to the due date, past the priority
GuidedCategoryPastPriority(self, message) ==
    LET Then(parsed) ==
            IF DictGet(parsed, "skip", FALSE) THEN self.conversation
            ELSE IF Truthy(parsed, "new_category")
                 THEN _update_pending_task(self.conversation,
                          [new_category_name |-> parsed.new_category])
                 ELSE IF "value" \in DOMAIN parsed
                      THEN _update_pending_task(self.conversation,
                               [category_id |-> parsed.value, category_name |-> parsed.name])
                      ELSE self.conversation
    IN Returned([self EXCEPT !.conversation =
                    _set_state(Then(_parse_user_response(message, "category",
                                                         _get_pending_task(self.conversation))),
                               AWAITING_DUE_DATE)],
                [type |-> "guided_step", step |-> "due_date",
                 content |-> Text(self.language, "Category selected. Enter due date", <<>>)],
                {})

GuidedCategory(self, message) ==
    LET Then(parsed) ==
            IF DictGet(parsed, "skip", FALSE) THEN self.conversation
            ELSE IF Truthy(parsed, "new_category")
                 THEN _update_pending_task(self.conversation,
                          [new_category_name |-> parsed.new_category])
                 ELSE IF "value" \in DOMAIN parsed
                      THEN _update_pending_task(self.conversation,
                               [category_id |-> parsed.value, category_name |-> parsed.name])
                      ELSE self.conversation
    IN Returned([self EXCEPT !.conversation =
                    _set_state(Then(_parse_user_response(message, "category",
                                                         _get_pending_task(self.conversation))),
                               AWAITING_PRIORITY)],
                [type |-> "guided_step", step |-> "priority",
                 content |-> Text(self.language, "Category selected. Select priority", <<>>)],
                {})

\* the priority step with 'low' where nothing was chosen
GuidedPriorityLow(self, message) ==
    LET Saved(priority) ==
            Returned([self EXCEPT !.conversation =
                         _set_state(_update_pending_task(@, [priority |-> priority]),
                                    AWAITING_DUE_DATE)],
                     [type |-> "guided_step", step |-> "due_date",
                      content |-> Text(self.language, "Priority: Enter due date", <<priority>>)],
                     {})
        Then(parsed) ==
            Saved(IF ~DictGet(parsed, "skip", FALSE)
                  THEN DictGet(parsed, "value", "low") ELSE "low")
    IN Then(_parse_user_response(message, "priority", _get_pending_task(self.conversation)))

GuidedPriority(self, message) ==
    LET Saved(priority) ==
            Returned([self EXCEPT !.conversation =
                         _set_state(_update_pending_task(@, [priority |-> priority]),
                                    AWAITING_DUE_DATE)],
                     [type |-> "guided_step", step |-> "due_date",
                      content |-> Text(self.language, "Priority: Enter due date", <<priority>>)],
                     {})
        Then(parsed) ==
            Saved(IF ~DictGet(parsed, "skip", FALSE)
                  THEN DictGet(parsed, "value", "medium") ELSE "medium")
    IN Then(_parse_user_response(message, "priority", _get_pending_task(self.conversation)))

\* every value _parse_user_response gives for a due date is a datetime, so
\* the text saved is its isoformat()
\* the due date step asking again when the answer is no date
GuidedDueDateAsking(self, message) ==
    LET parsed == _parse_user_response(message, "due_date",
                                       _get_pending_task(self.conversation))
        dated == ~DictGet(parsed, "skip", FALSE) /\ DictGet(parsed, "value", None) # None
    IN IF ~DictGet(parsed, "skip", FALSE) /\ ~dated
       THEN Returned(self,
                     [type |-> "guided_step", step |-> "due_date",
                      content |-> Text(self.language, "Enter due date", <<>>)],
                     {})
       ELSE Returned([self EXCEPT !.conversation =
                         _set_state(IF dated
                                    THEN _update_pending_task(
                                             @, [due_date |-> isoformat(parsed.value)])
                                    ELSE @,
                                    AWAITING_RECURRENCE)],
                     [type |-> "guided_step", step |-> "recurrence",
                      content |-> Text(self.language,
                                       "Due date saved. Select recurrence pattern", <<>>)],
                     {})

GuidedDueDate(self, message) ==
    LET Then(parsed) ==
            IF ~DictGet(parsed, "skip", FALSE) /\ DictGet(parsed, "value", None) # None
            THEN _update_pending_task(self.conversation, [due_date |-> isoformat(parsed.value)])
            ELSE self.conversation
    IN Returned([self EXCEPT !.conversation =
                    _set_state(Then(_parse_user_response(message, "due_date",
                                                         _get_pending_task(self.conversation))),
                               AWAITING_RECURRENCE)],
                [type |-> "guided_step", step |-> "recurrence",
                 content |-> Text(self.language, "Due date saved. Select recurrence pattern",
                                  <<>>)],
                {})

GuidedRecurrence(self, message) ==
    LET Then(parsed) ==
            IF ~DictGet(parsed, "skip", FALSE) /\ DictGet(parsed, "value", None) # None
            THEN _update_pending_task(self.conversation, [recurrence_pattern |-> parsed.value])
            ELSE self.conversation
    IN Returned([self EXCEPT !.conversation =
                    _set_state(Then(_parse_user_response(message, "recurrence",
                                                         _get_pending_task(self.conversation))),
                               AWAITING_TAGS)],
                [type |-> "guided_step", step |-> "tags",
                 content |-> Text(self.language, "Recurrence saved. Enter tags", <<>>)],
                {})

\* the fault env injects at the k-th tag: "ok", "create" or "attach"
TagFault(env, k) == IF k \in DOMAIN env.tag_faults THEN env.tag_faults[k] ELSE "ok"

\* the loop over tag_names from the k-th on: a tag that raises is skipped
\* one tag of the list: create_tag, then add_tag_to_task
AttachTag(made, task_id, fails) ==
    IF made.raised THEN made ELSE TagService_add_tag_to_task(made.db, task_id, made.tag.id, fails)
AddTag(db, task_id, user_id, name, k, env) ==
    AttachTag(TagService_create_tag(db, [name |-> name], user_id,
                                    TagFault(env, k) = "create" \/ Len(name) > 50),
              task_id, TagFault(env, k) = "attach")

\* the tag loop ended by the first tag that raises
RECURSIVE AddTagsUntilRaise(_, _, _, _, _, _)
AddTagsUntilRaise(db, task_id, user_id, tag_names, k, env) ==
    IF k > Len(tag_names) THEN db
    ELSE IF Strip(tag_names[k]) = <<>>
         THEN AddTagsUntilRaise(db, task_id, user_id, tag_names, k + 1, env)
    ELSE IF AddTag(db, task_id, user_id, Strip(tag_names[k]), k, env).raised
         THEN AddTag(db, task_id, user_id, Strip(tag_names[k]), k, env).db
    ELSE AddTagsUntilRaise(AddTag(db, task_id, user_id, Strip(tag_names[k]), k, env).db,
                           task_id, user_id, tag_names, k + 1, env)

\* the tag loop of _finalize_guided_task: a tag that raises is skipped
RECURSIVE AddTags(_, _, _, _, _, _)
AddTags(db, task_id, user_id, tag_names, k, env) ==
    IF k > Len(tag_names) THEN db
    ELSE AddTags(IF Strip(tag_names[k]) = <<>> THEN db
                 ELSE AddTag(db, task_id, user_id, Strip(tag_names[k]), k, env).db,
                 task_id, user_id, tag_names, k + 1, env)

\* the error reply without the reset of the conversation
FinalizeFailedNoReset(self, db, what) ==
    Returned([self EXCEPT !.db = db],
             [type |-> "error",
              content |-> Text(self.language, "Error creating task:", <<what>>)],
             {"_finalize_guided_task"})

FinalizeFailed(self, db, what) ==
    Returned([self EXCEPT !.db = db, !.conversation = _clear_pending_task(@)],
             [type |-> "error",
              content |-> Text(self.language, "Error creating task:", <<what>>)],
             {"_finalize_guided_task"})

\* the category of the flow: the new one under the name the code gives it,
\* else the one chosen by id
NewCategory(self, name, env) ==
    CategoryService_create_or_get_category(self.db, self.user_id, name, "#8B5CF6", "folder",
                                           env.category_fails \/ Len(name) > 50)
FinalizeCategory(self, pending_task, env) ==
    IF Truthy(pending_task, "new_category_name")
    THEN NewCategory(self, TitleCase(Strip(pending_task.new_category_name)), env)
    ELSE [raised |-> FALSE, db |-> self.db,
          category |-> [id |-> DictGet(pending_task, "category_id", 0)]]

FinalizeTaskData(pending_task, category_id) ==
    [title |-> DictGet(pending_task, "title", <<>>),
     description |-> IF Truthy(pending_task, "description")
                     THEN pending_task.description ELSE None,
     is_completed |-> FALSE,
     category_id |-> category_id,
     priority |-> IF DictGet(pending_task, "priority", "medium")
                       \in {"critical", "high", "medium", "low"}
                  THEN DictGet(pending_task, "priority", "medium") ELSE "medium",
     due_date |-> IF Truthy(pending_task, "due_date")
                  THEN fromisoformat(pending_task.due_date) ELSE None,
     recurrence_pattern |-> IF DictGet(pending_task, "recurrence_pattern", None)
                                 \in {"daily", "weekly", "monthly"}
                            THEN pending_task.recurrence_pattern ELSE None,
     recurrence_interval |-> 1]

\* the task as the replies carry it
TaskJson(task) ==
    [id |-> task.id,
     title |-> task.title,
     description |-> task.description,
     is_completed |-> task.is_completed,
     category_id |-> IF task.category_id = 0 THEN None ELSE task.category_id,
     priority |-> task.priority,
     due_date |-> IF task.due_date # None THEN isoformat(task.due_date) ELSE None]

FinalizeCreated(self, pending_task, db, created, env) ==
    IF created.raised THEN FinalizeFailed(self, db, "task")
    ELSE Returned([self EXCEPT
                      !.db = AddTags(created.db, created.task.id, self.user_id,
                                     DictGet(pending_task, "tags", <<>>), 1, env),
                      !.conversation = _clear_pending_task(@)],
                  [type |-> "task_created",
                   content |-> Text(self.language, "Task created successfully",
                                    <<created.task.title, created.task.description,
                                      created.task.priority, created.task.due_date,
                                      DictGet(pending_task, "recurrence_pattern", None),
                                      DictGet(pending_task, "tags", <<>>), created.task.id>>),
                   task |-> TaskJson(created.task)],
                  {"_finalize_guided_task"})

FinalizeTask(self, pending_task, category, task_data, env) ==
    IF category.raised THEN FinalizeFailed(self, self.db, "category")
    ELSE FinalizeCreated(self, pending_task, category.db,
                         TaskService_create_task(category.db, task_data, self.user_id,
                                                 env.task_fails \/ Len(task_data.title) > 200),
                         env)

FinalizePending(self, pending_task, category, env) ==
    FinalizeTask(self, pending_task, category,
                 FinalizeTaskData(pending_task, category.category.id), env)

_finalize_guided_task(self, env) ==
    FinalizePending(self, _get_pending_task(self.conversation),
                    FinalizeCategory(self, _get_pending_task(self.conversation), env), env)

\* the conversation row once the tags step has recorded the tags
TagsRecorded(conv, message) ==
    LET Then(parsed) ==
            IF ~DictGet(parsed, "skip", FALSE) /\ DictGet(parsed, "value", <<>>) # <<>>
            THEN _update_pending_task(conv, [tags |-> parsed.value])
            ELSE conv
    IN Then(_parse_user_response(message, "tags", _get_pending_task(conv)))

GuidedTags(self, message, env) ==
    _finalize_guided_task(
        [self EXCEPT !.conversation = TagsRecorded(self.conversation, message)], env)

\* the dispatch with the recurrence step sent to the handler of the tags step
GuidedStepEarlyTags(self, current_state, message, env) ==
    CASE current_state = AWAITING_TITLE -> GuidedTitle(self, message)
      [] current_state = AWAITING_DESCRIPTION -> GuidedDescription(self, message, env)
      [] current_state = AWAITING_CATEGORY -> GuidedCategory(self, message)
      [] current_state = AWAITING_PRIORITY -> GuidedPriority(self, message)
      [] current_state = AWAITING_DUE_DATE -> GuidedDueDate(self, message)
      [] current_state \in {AWAITING_RECURRENCE, AWAITING_TAGS} ->
           GuidedTags(self, message, env)
      [] OTHER ->
           Returned([self EXCEPT !.conversation = _clear_pending_task(@)],
                    [type |-> "message",
                     content |-> Text(self.language, "Something went wrong", <<>>)],
                    {})

GuidedStep(self, current_state, message, env) ==
    CASE current_state = AWAITING_TITLE -> GuidedTitle(self, message)
      [] current_state = AWAITING_DESCRIPTION -> GuidedDescription(self, message, env)
      [] current_state = AWAITING_CATEGORY -> GuidedCategory(self, message)
      [] current_state = AWAITING_PRIORITY -> GuidedPriority(self, message)
      [] current_state = AWAITING_DUE_DATE -> GuidedDueDate(self, message)
      [] current_state = AWAITING_RECURRENCE -> GuidedRecurrence(self, message)
      [] current_state = AWAITING_TAGS -> GuidedTags(self, message, env)
      [] OTHER ->
           Returned([self EXCEPT !.conversation = _clear_pending_task(@)],
                    [type |-> "message",
                     content |-> Text(self.language, "Something went wrong", <<>>)],
                    {})

Called(result, name) == [result EXCEPT !.calls = @ \cup {name}]

_handle_guided_flow(self, message, env) ==
    Called(GuidedStep(self, _get_state(self.conversation), message, env),
           "_handle_guided_flow")

(***************************************************************************)
(* ChatAgent._execute_action                                               *)
(***************************************************************************)
ActionNames ==
    {"start_guided_task", "create_task", "list_tasks", "complete_task", "uncomplete_task",
     "delete_task", "update_task", "search_tasks", "add_subtask", "complete_subtask",
     "delete_subtask"}

ExecStartGuidedTask(self, action_data) ==
    LET initial_title == Strip(DictGet(action_data, "initial_title", <<>>))
    IN IF initial_title # <<>>
       THEN Returned([self EXCEPT !.conversation =
                         _set_state(_update_pending_task(@, [title |-> initial_title]),
                                    AWAITING_DESCRIPTION)],
                     [type |-> "guided_step", step |-> "description",
                      content |-> Text(self.language, "Starting task creation! Title:",
                                       <<initial_title>>)],
                     {})
       ELSE Returned([self EXCEPT !.conversation = _set_state(@, AWAITING_TITLE)],
                     [type |-> "guided_step", step |-> "title",
                      content |-> Text(self.language,
                                       "Starting new task creation! Please enter the task title",
                                       <<>>)],
                     {})

ExecError(self, db, what) ==
    Returned([self EXCEPT !.db = db],
             [type |-> "error", content |-> Text("en", "Error:", <<what>>)], {})

\* the tag loop of create_task: the first tag that raises ends the action
RECURSIVE AddTagsOrRaise(_, _, _, _, _, _)
TagsAfter(added, task_id, user_id, tag_names, k, env) ==
    IF added.raised THEN added
    ELSE AddTagsOrRaise(added.db, task_id, user_id, tag_names, k, env)
AddTagsOrRaise(db, task_id, user_id, tag_names, k, env) ==
    IF k > Len(tag_names) THEN [raised |-> FALSE, db |-> db]
    ELSE TagsAfter(IF Strip(tag_names[k]) = <<>> THEN [raised |-> FALSE, db |-> db]
                   ELSE AddTag(db, task_id, user_id, Strip(tag_names[k]), k, env),
                   task_id, user_id, tag_names, k + 1, env)

\* the due date of create_task: the ISO format, then parse_natural_date
ExecDueDateIso(action_data, iso) ==
    IF iso # None THEN iso ELSE parse_natural_date(action_data.due_date)
ExecDueDate(action_data) ==
    IF ~Truthy(action_data, "due_date") THEN None
    ELSE ExecDueDateIso(action_data,
                        fromisoformat(Replace(action_data.due_date, Str("Z"), Str("+00:00"))))

ExecCategory(self, action_data, env) ==
    IF Truthy(action_data, "category")
    THEN NewCategory(self, TitleCase(Strip(action_data.category)), env)
    ELSE [raised |-> FALSE, db |-> self.db, category |-> [id |-> 0]]

ExecTaskData(action_data, category_id, due_date) ==
    [title |-> DictGet(action_data, "title", <<>>),
     description |-> IF Truthy(action_data, "description")
                     THEN action_data.description ELSE None,
     is_completed |-> FALSE,
     category_id |-> category_id,
     priority |-> IF DictGet(action_data, "priority", "medium")
                       \in {"critical", "high", "medium", "low"}
                  THEN DictGet(action_data, "priority", "medium") ELSE "medium",
     due_date |-> due_date,
     recurrence_pattern |-> IF DictGet(action_data, "recurrence_pattern", None)
                                 \in {"daily", "weekly", "monthly"}
                            THEN action_data.recurrence_pattern ELSE None,
     recurrence_interval |-> 1]

ExecTagged(self, action_data, task, tagged) ==
    IF tagged.raised THEN ExecError(self, tagged.db, "tag")
    ELSE Returned([self EXCEPT !.db = tagged.db],
                  [type |-> "task_created",
                   content |-> Text("en", "Created task:",
                                    <<task.title, DictGet(action_data, "category", None),
                                      task.priority, task.due_date,
                                      DictGet(action_data, "tags", <<>>)>>),
                   task |-> TaskJson(task)],
                  {})

ExecCreated(self, action_data, db, created, env) ==
    IF created.raised THEN ExecError(self, db, "task")
    ELSE ExecTagged(self, action_data, created.task,
                    AddTagsOrRaise(created.db, created.task.id, self.user_id,
                                   DictGet(action_data, "tags", <<>>), 1, env))

ExecCreate(self, action_data, category, task_data, env) ==
    IF category.raised THEN ExecError(self, self.db, "category")
    ELSE ExecCreated(self, action_data, category.db,
                     TaskService_create_task(category.db, task_data, self.user_id,
                                             env.task_fails \/ Len(task_data.title) > 200),
                     env)

ExecCategorized(self, action_data, category, env) ==
    ExecCreate(self, action_data, category,
               ExecTaskData(action_data, category.category.id, ExecDueDate(action_data)), env)

ExecCreateTask(self, action_data, env) ==
    ExecCategorized(self, action_data, ExecCategory(self, action_data, env), env)

\* ORDER BY created_at DESC: the rows from the last inserted to the first
Reverse(rows) == Tuple([i \in 1..Len(rows) |-> rows[Len(rows) + 1 - i]])

TaskService_get_tasks_by_user(db, user_id) ==
    Reverse(Rows(db.tasks, LAMBDA t : t.user_id = user_id))

ExecListed(self, tasks, filter_label) ==
    IF tasks = <<>>
    THEN Returned(self,
                  [type |-> "message",
                   content |-> Text("en", "You have no tasks.", <<filter_label>>)], {})
    ELSE Returned(self,
                  [type |-> "task_list",
                   content |-> Text("en", "Your tasks:",
                                    <<filter_label,
                                      [i \in 1..Len(tasks) |->
                                         <<tasks[i].is_completed, tasks[i].title,
                                           tasks[i].id>>]>>),
                   tasks |-> [i \in 1..Len(tasks) |->
                                 [id |-> tasks[i].id,
                                  title |-> tasks[i].title,
                                  description |-> tasks[i].description,
                                  is_completed |-> tasks[i].is_completed]]],
                  {})
ExecFiltered(self, all_tasks, task_filter) ==
    IF task_filter = Str("completed")
    THEN ExecListed(self, Rows(all_tasks, LAMBDA t : t.is_completed), "completed")
    ELSE IF task_filter = Str("incomplete")
         THEN ExecListed(self, Rows(all_tasks, LAMBDA t : ~t.is_completed),
                         "incomplete/pending")
         ELSE ExecListed(self, all_tasks, "all")
ExecListTasks(self, action_data) ==
    ExecFiltered(self, TaskService_get_tasks_by_user(self.db, self.user_id),
                 Lower(DictGet(action_data, "filter", Str("all"))))

\* the lookup by id alone
TaskService_get_task_any_owner(db, task_id, user_id) ==
    IF \E k \in 1..Len(db.tasks) : db.tasks[k].id = task_id
    THEN CHOOSE k \in 1..Len(db.tasks) : db.tasks[k].id = task_id
    ELSE 0

\* TaskService.get_task_by_id: the index of the row in the table, 0 if none
TaskService_get_task_by_id(db, task_id, user_id) ==
    IF \E k \in 1..Len(db.tasks) : db.tasks[k].id = task_id /\ db.tasks[k].user_id = user_id
    THEN CHOOSE k \in 1..Len(db.tasks) :
             db.tasks[k].id = task_id /\ db.tasks[k].user_id = user_id
    ELSE 0

\* TaskService.update_task with TaskUpdate(is_completed=...)
TaskUpdated(db, k, is_completed) ==
    IF k = 0 THEN [found |-> FALSE, db |-> db]
    ELSE [found |-> TRUE,
          db |-> [db EXCEPT !.tasks[k].is_completed = is_completed],
          task |-> [db.tasks[k] EXCEPT !.is_completed = is_completed]]
TaskService_update_task(db, task_id, user_id, is_completed) ==
    TaskUpdated(db, TaskService_get_task_by_id(db, task_id, user_id), is_completed)

ExecCompleted(self, task_id, updated) ==
    IF task_id = 0
    THEN Returned(self, [type |-> "error",
                         content |-> Text("en", "Task ID is required.", <<>>)], {})
    ELSE IF ~updated.found
         THEN Returned(self, [type |-> "error",
                              content |-> Text("en", "Task not found.", <<task_id>>)], {})
         ELSE Returned([self EXCEPT !.db = updated.db],
                       [type |-> "task_completed",
                        content |-> Text("en", "Completed task:", <<updated.task.title>>),
                        task |-> [id |-> updated.task.id,
                                  title |-> updated.task.title,
                                  is_completed |-> updated.task.is_completed]],
                       {})
ExecCompleteTask(self, action_data) ==
    ExecCompleted(self, DictGet(action_data, "task_id", 0),
                  TaskService_update_task(self.db, DictGet(action_data, "task_id", 0),
                                          self.user_id, TRUE))

ExecUncompleted(self, task_id, updated) ==
    IF task_id = 0
    THEN Returned(self, [type |-> "error",
                         content |-> Text("en", "Task ID is required.", <<>>)], {})
    ELSE IF ~updated.found
         THEN Returned(self, [type |-> "error",
                              content |-> Text("en", "Task not found.", <<task_id>>)], {})
         ELSE Returned([self EXCEPT !.db = updated.db],
                       [type |-> "task_uncompleted",
                        content |-> Text("en", "Marked task as incomplete:",
                                         <<updated.task.title>>),
                        task |-> [id |-> updated.task.id,
                                  title |-> updated.task.title,
                                  is_completed |-> updated.task.is_completed]],
                       {})
ExecUncompleteTask(self, action_data) ==
    ExecUncompleted(self, DictGet(action_data, "task_id", 0),
                    TaskService_update_task(self.db, DictGet(action_data, "task_id", 0),
                                            self.user_id, FALSE))

\* the sequence without its k-th element
Remove(rows, k) == SubSeq(rows, 1, k - 1) \o SubSeq(rows, k + 1, Len(rows))

\* TaskService.delete_task.  subtasks.parent_task_id and task_tags.task_id are
\* foreign keys declared without ON DELETE: a database that enforces them
\* (env.fk_enforced) rejects the DELETE of a task they refer to, and the commit
\* raises; one that does not leaves those rows behind
Referenced(db, task_id) ==
    \/ \E k \in 1..Len(db.subtasks) : db.subtasks[k].parent_task_id = task_id
    \/ \E k \in 1..Len(db.task_tags) : db.task_tags[k].task_id = task_id
TaskDeleted(db, k, task_id, fk_enforced) ==
    IF k = 0 THEN [raised |-> FALSE, found |-> FALSE, db |-> db]
    ELSE IF fk_enforced /\ Referenced(db, task_id) THEN Raise(db)
    ELSE [raised |-> FALSE, found |-> TRUE, db |-> [db EXCEPT !.tasks = Remove(@, k)]]
TaskService_delete_task(db, task_id, user_id, fk_enforced) ==
    TaskDeleted(db, TaskService_get_task_by_id(db, task_id, user_id), task_id, fk_enforced)

ExecDeleted(self, task_id, deleted) ==
    IF task_id = 0
    THEN Returned(self, [type |-> "error",
                         content |-> Text("en", "Task ID is required.", <<>>)], {})
    ELSE IF deleted.raised THEN ExecError(self, self.db, "delete")
    ELSE IF ~deleted.found
         THEN Returned(self, [type |-> "error",
                              content |-> Text("en", "Task not found.", <<task_id>>)], {})
         ELSE Returned([self EXCEPT !.db = deleted.db],
                       [type |-> "task_deleted",
                        content |-> Text("en", "Deleted task ID", <<task_id>>)], {})
ExecDeleteTask(self, action_data, env) ==
    ExecDeleted(self, DictGet(action_data, "task_id", 0),
                TaskService_delete_task(self.db, DictGet(action_data, "task_id", 0),
                                        self.user_id, env.fk_enforced))

\* TaskService.update_task with TaskUpdate(title=..., description=...): a
\* field that is None stays as it is
TaskPatched(db, k, title, description) ==
    IF k = 0 THEN [found |-> FALSE, db |-> db]
    ELSE [found |-> TRUE,
          db |-> [db EXCEPT !.tasks[k].title = IF title # None THEN title ELSE @,
                            !.tasks[k].description =
                                IF description # None THEN description ELSE @],
          task |-> [db.tasks[k] EXCEPT
                      !.title = IF title # None THEN title ELSE @,
                      !.description = IF description # None THEN description ELSE @]]
TaskService_patch_task(db, task_id, user_id, title, description) ==
    TaskPatched(db, TaskService_get_task_by_id(db, task_id, user_id), title, description)

\* TaskUpdate(title=...) raises a ValidationError, a ValueError, for a title
\* of more than 200 characters
ExecUpdated(self, task_id, title, updated) ==
    IF task_id = 0
    THEN Returned(self, [type |-> "error",
                         content |-> Text("en", "Task ID is required.", <<>>)], {})
    ELSE IF title # None /\ Len(title) > 200
         THEN Returned(self, [type |-> "error",
                              content |-> Text("en", "ValidationError", <<>>)], {})
    ELSE IF ~updated.found
         THEN Returned(self, [type |-> "error",
                              content |-> Text("en", "Task not found.", <<task_id>>)], {})
         ELSE Returned([self EXCEPT !.db = updated.db],
                       [type |-> "task_updated",
                        content |-> Text("en", "Updated task:", <<updated.task.title>>),
                        task |-> [id |-> updated.task.id,
                                  title |-> updated.task.title,
                                  description |-> updated.task.description]],
                       {})
ExecUpdateTask(self, action_data) ==
    ExecUpdated(self, DictGet(action_data, "task_id", 0),
                DictGet(action_data, "title", None),
                TaskService_patch_task(self.db, DictGet(action_data, "task_id", 0),
                                       self.user_id, DictGet(action_data, "title", None),
                                       DictGet(action_data, "description", None)))

\* TaskService.get_tasks_by_user with search_query: the user's rows that the
\* full-text index of the database matches with the query; env.search is the
\* set of the ids of the rows the index matches
TaskService_search_tasks(db, user_id, hits) ==
    Reverse(Rows(db.tasks, LAMBDA t : t.user_id = user_id /\ t.id \in hits))

ExecFound(self, query, tasks) ==
    IF query = <<>>
    THEN Returned(self, [type |-> "error",
                         content |-> Text("en", "Search query is required.", <<>>)], {})
    ELSE IF tasks = <<>>
         THEN Returned(self, [type |-> "message",
                              content |-> Text("en", "No tasks found matching", <<query>>)],
                       {})
         ELSE Returned(self,
                       [type |-> "search_results",
                        content |-> Text("en", "Found task(s) matching",
                                         <<Len(tasks), query,
                                           [i \in 1..Len(tasks) |->
                                              <<tasks[i].is_completed, tasks[i].title,
                                                tasks[i].id>>]>>),
                        tasks |-> [i \in 1..Len(tasks) |->
                                      [id |-> tasks[i].id,
                                       title |-> tasks[i].title,
                                       description |-> tasks[i].description,
                                       is_completed |-> tasks[i].is_completed]]],
                       {})
\* action_data.get("query", "").strip() raises an AttributeError when the
\* value is None
ExecSearchTasks(self, action_data, env) ==
    IF DictGet(action_data, "query", <<>>) = None
    THEN ExecError(self, self.db, "AttributeError")
    ELSE ExecFound(self, Strip(DictGet(action_data, "query", <<>>)),
                   TaskService_search_tasks(self.db, self.user_id, env.search))

\* SubtaskService.create_subtask with SubtaskCreate(order=0)
SubtaskService_create_subtask(db, parent_task_id, subtask_data) ==
    LET id == db.seq.subtasks + 1
        subtask == [id |-> id, parent_task_id |-> parent_task_id,
                    title |-> subtask_data.title,
                    is_completed |-> subtask_data.is_completed,
                    order |-> subtask_data.order]
    IN [db |-> [db EXCEPT !.subtasks = Append(@, subtask), !.seq.subtasks = id],
        subtask |-> subtask]

\* SubtaskService.get_subtask_by_id: the index of the row in the table, 0 if
\* none; the query does not look at the owner
SubtaskService_get_subtask_by_id(db, subtask_id) ==
    IF \E k \in 1..Len(db.subtasks) : db.subtasks[k].id = subtask_id
    THEN CHOOSE k \in 1..Len(db.subtasks) : db.subtasks[k].id = subtask_id
    ELSE 0

\* SubtaskService.update_subtask with SubtaskUpdate(is_completed=True)
SubtaskService_update_subtask(db, subtask_id, is_completed) ==
    LET k == SubtaskService_get_subtask_by_id(db, subtask_id)
    IN IF k = 0 THEN [found |-> FALSE, db |-> db]
       ELSE [found |-> TRUE,
             db |-> [db EXCEPT !.subtasks[k].is_completed = is_completed],
             subtask |-> [db.subtasks[k] EXCEPT !.is_completed = is_completed]]

\* SubtaskService.delete_subtask
SubtaskService_delete_subtask(db, subtask_id) ==
    LET k == SubtaskService_get_subtask_by_id(db, subtask_id)
    IN IF k = 0 THEN [found |-> FALSE, db |-> db]
       ELSE [found |-> TRUE, db |-> [db EXCEPT !.subtasks = Remove(@, k)]]

ExecSubtaskAdded(self, task, added) ==
    Returned([self EXCEPT !.db = added.db],
             [type |-> "subtask_added",
              content |-> Text("en", "Added subtask to task:",
                               <<added.subtask.title, task.title>>),
              subtask |-> [id |-> added.subtask.id,
                           title |-> added.subtask.title,
                           parent_task_id |-> added.subtask.parent_task_id,
                           is_completed |-> added.subtask.is_completed]],
             {})
\* SubtaskCreate(title=...) raises a ValidationError, a ValueError, for a
\* title of more than 200 characters
ExecSubtask(self, task_id, subtask_title, k) ==
    IF task_id = 0
    THEN Returned(self, [type |-> "error",
                         content |-> Text("en", "Task ID is required.", <<>>)], {})
    ELSE IF subtask_title = <<>>
         THEN Returned(self, [type |-> "error",
                              content |-> Text("en", "Subtask title is required.", <<>>)],
                       {})
    ELSE IF k = 0
         THEN Returned(self, [type |-> "error",
                              content |-> Text("en", "Task not found.", <<task_id>>)], {})
    ELSE IF Len(subtask_title) > 200
         THEN Returned(self, [type |-> "error",
                              content |-> Text("en", "ValidationError", <<>>)], {})
    ELSE ExecSubtaskAdded(self, self.db.tasks[k],
                          SubtaskService_create_subtask(
                              self.db, task_id,
                              [title |-> subtask_title, is_completed |-> FALSE,
                               order |-> 0]))
\* action_data.get("subtask_title", "").strip() comes before the check of
\* task_id, and raises an AttributeError when the value is None
ExecAddSubtask(self, action_data) ==
    IF DictGet(action_data, "subtask_title", <<>>) = None
    THEN ExecError(self, self.db, "AttributeError")
    ELSE ExecSubtask(self, DictGet(action_data, "task_id", 0),
                     Strip(DictGet(action_data, "subtask_title", <<>>)),
                     TaskService_get_task_by_id(self.db, DictGet(action_data, "task_id", 0),
                                                self.user_id))

\* the checks without the lookup of the parent task
SubtaskRefusedById(self, subtask_id, k) ==
    IF subtask_id = 0
    THEN <<[type |-> "error", content |-> Text("en", "Subtask ID is required.", <<>>)]>>
    ELSE IF k = 0
         THEN <<[type |-> "error",
                 content |-> Text("en", "Subtask not found.", <<subtask_id>>)]>>
    ELSE <<>>

\* the checks complete_subtask and delete_subtask make before they write:
\* the reply that ends the action, in <<..>>, or <<>>
SubtaskRefused(self, subtask_id, k) ==
    IF subtask_id = 0
    THEN <<[type |-> "error", content |-> Text("en", "Subtask ID is required.", <<>>)]>>
    ELSE IF k = 0
         THEN <<[type |-> "error",
                 content |-> Text("en", "Subtask not found.", <<subtask_id>>)]>>
    ELSE IF TaskService_get_task_by_id(self.db, self.db.subtasks[k].parent_task_id,
                                       self.user_id) = 0
         THEN <<[type |-> "error",
                 content |-> Text("en", "Parent task not found or access denied.", <<>>)]>>
    ELSE <<>>

ExecSubtaskCompleted(self, refused, updated) ==
    IF refused # <<>> THEN Returned(self, refused[1], {})
    ELSE Returned([self EXCEPT !.db = updated.db],
                  [type |-> "subtask_completed",
                   content |-> Text("en", "Completed subtask:", <<updated.subtask.title>>),
                   subtask |-> [id |-> updated.subtask.id,
                                title |-> updated.subtask.title,
                                is_completed |-> updated.subtask.is_completed]],
                  {})
ExecCompleteSubtask(self, action_data) ==
    ExecSubtaskCompleted(
        self,
        SubtaskRefused(self, DictGet(action_data, "subtask_id", 0),
                       SubtaskService_get_subtask_by_id(
                           self.db, DictGet(action_data, "subtask_id", 0))),
        SubtaskService_update_subtask(self.db, DictGet(action_data, "subtask_id", 0), TRUE))

ExecSubtaskDeleted(self, subtask_id, refused, deleted) ==
    IF refused # <<>> THEN Returned(self, refused[1], {})
    ELSE Returned([self EXCEPT !.db = deleted.db],
                  [type |-> "subtask_deleted",
                   content |-> Text("en", "Deleted subtask ID", <<subtask_id>>)], {})
ExecDeleteSubtask(self, action_data) ==
    ExecSubtaskDeleted(
        self, DictGet(action_data, "subtask_id", 0),
        SubtaskRefused(self, DictGet(action_data, "subtask_id", 0),
                       SubtaskService_get_subtask_by_id(
                           self.db, DictGet(action_data, "subtask_id", 0))),
        SubtaskService_delete_subtask(self.db, DictGet(action_data, "subtask_id", 0)))

\* the dispatch that lists the tasks when it does not know the kind
ExecNamedOrList(self, action, action_data, env) ==
    CASE action = "start_guided_task" -> ExecStartGuidedTask(self, action_data)
      [] action = "create_task" -> ExecCreateTask(self, action_data, env)
      [] action = "complete_task" -> ExecCompleteTask(self, action_data)
      [] action = "uncomplete_task" -> ExecUncompleteTask(self, action_data)
      [] action = "delete_task" -> ExecDeleteTask(self, action_data, env)
      [] action = "update_task" -> ExecUpdateTask(self, action_data)
      [] action = "search_tasks" -> ExecSearchTasks(self, action_data, env)
      [] action = "add_subtask" -> ExecAddSubtask(self, action_data)
      [] action = "complete_subtask" -> ExecCompleteSubtask(self, action_data)
      [] action = "delete_subtask" -> ExecDeleteSubtask(self, action_data)
      [] OTHER -> ExecListTasks(self, action_data)

ExecNamed(self, action, action_data, env) ==
    CASE action = "start_guided_task" -> ExecStartGuidedTask(self, action_data)
      [] action = "create_task" -> ExecCreateTask(self, action_data, env)
      [] action = "list_tasks" -> ExecListTasks(self, action_data)
      [] action = "complete_task" -> ExecCompleteTask(self, action_data)
      [] action = "uncomplete_task" -> ExecUncompleteTask(self, action_data)
      [] action = "delete_task" -> ExecDeleteTask(self, action_data, env)
      [] action = "update_task" -> ExecUpdateTask(self, action_data)
      [] action = "search_tasks" -> ExecSearchTasks(self, action_data, env)
      [] action = "add_subtask" -> ExecAddSubtask(self, action_data)
      [] action = "complete_subtask" -> ExecCompleteSubtask(self, action_data)
      [] action = "delete_subtask" -> ExecDeleteSubtask(self, action_data)
      [] action \notin ActionNames ->
           Returned(self,
                    [type |-> "error",
                     content |-> Text("en", "Unknown action:", <<action>>)], {})
_execute_action(self, action_data, env) ==
    Called(ExecNamed(self, DictGet(action_data, "action", None), action_data, env),
           "_execute_action")

(***************************************************************************)
(* ChatAgent.process_message                                               *)
(***************************************************************************)
\* json.loads of a text written by json_dumps, or of one of the JSON texts
\* the completion API answers with in the model; JSONDecodeError otherwise
JsonTexts ==
    << [text |-> Str("{\"action\": \"create_task\", \"title\": \"Pay\"}"),
        value |-> [action |-> "create_task", title |-> Str("Pay")]],
       [text |-> Str("{\"action\": \"fly\"}"),
        value |-> [action |-> "fly"]],
       [text |-> Str("{\"title\": \"x\"}"),
        value |-> [title |-> Str("x")]] >>
\* the JSON texts of the actions on the rows of the seeded database: per
\* kind, the id of a row of the user, of a row of another user, of no row,
\* no id, and the first two with a user_id key
ActionTexts ==
    << [text |-> Str("{\"action\": \"complete_task\", \"task_id\": 1}"),
        value |-> [action |-> "complete_task", task_id |-> 1]],
       [text |-> Str("{\"action\": \"complete_task\", \"task_id\": 2}"),
        value |-> [action |-> "complete_task", task_id |-> 2]],
       [text |-> Str("{\"action\": \"complete_task\", \"task_id\": 9}"),
        value |-> [action |-> "complete_task", task_id |-> 9]],
       [text |-> Str("{\"action\": \"complete_task\"}"),
        value |-> [action |-> "complete_task"]],
       [text |-> Str("{\"action\": \"complete_task\", \"task_id\": 1, \"user_id\": \"u2\"}"),
        value |-> [action |-> "complete_task", task_id |-> 1, user_id |-> Str("u2")]],
       [text |-> Str("{\"action\": \"complete_task\", \"task_id\": 2, \"user_id\": \"u2\"}"),
        value |-> [action |-> "complete_task", task_id |-> 2, user_id |-> Str("u2")]],
       [text |-> Str("{\"action\": \"uncomplete_task\", \"task_id\": 1}"),
        value |-> [action |-> "uncomplete_task", task_id |-> 1]],
       [text |-> Str("{\"action\": \"uncomplete_task\", \"task_id\": 2}"),
        value |-> [action |-> "uncomplete_task", task_id |-> 2]],
       [text |-> Str("{\"action\": \"uncomplete_task\", \"task_id\": 9}"),
        value |-> [action |-> "uncomplete_task", task_id |-> 9]],
       [text |-> Str("{\"action\": \"uncomplete_task\"}"),
        value |-> [action |-> "uncomplete_task"]],
       [text |-> Str("{\"action\": \"uncomplete_task\", \"task_id\": 1, \"user_id\": \"u2\"}"),
        value |-> [action |-> "uncomplete_task", task_id |-> 1, user_id |-> Str("u2")]],
       [text |-> Str("{\"action\": \"uncomplete_task\", \"task_id\": 2, \"user_id\": \"u2\"}"),
        value |-> [action |-> "uncomplete_task", task_id |-> 2, user_id |-> Str("u2")]],
       [text |-> Str("{\"action\": \"delete_task\", \"task_id\": 1}"),
        value |-> [action |-> "delete_task", task_id |-> 1]],
       [text |-> Str("{\"action\": \"delete_task\", \"task_id\": 2}"),
        value |-> [action |-> "delete_task", task_id |-> 2]],
       [text |-> Str("{\"action\": \"delete_task\", \"task_id\": 9}"),
        value |-> [action |-> "delete_task", task_id |-> 9]],
       [text |-> Str("{\"action\": \"delete_task\"}"),
        value |-> [action |-> "delete_task"]],
       [text |-> Str("{\"action\": \"delete_task\", \"task_id\": 1, \"user_id\": \"u2\"}"),
        value |-> [action |-> "delete_task", task_id |-> 1, user_id |-> Str("u2")]],
       [text |-> Str("{\"action\": \"delete_task\", \"task_id\": 2, \"user_id\": \"u2\"}"),
        value |-> [action |-> "delete_task", task_id |-> 2, user_id |-> Str("u2")]],
       [text |-> Str("{\"action\": \"update_task\", \"task_id\": 1, \"title\": \"New\"}"),
        value |-> [action |-> "update_task", task_id |-> 1, title |-> Str("New")]],
       [text |-> Str("{\"action\": \"update_task\", \"task_id\": 2, \"title\": \"New\"}"),
        value |-> [action |-> "update_task", task_id |-> 2, title |-> Str("New")]],
       [text |-> Str("{\"action\": \"update_task\", \"task_id\": 9, \"title\": \"New\"}"),
        value |-> [action |-> "update_task", task_id |-> 9, title |-> Str("New")]],
       [text |-> Str("{\"action\": \"update_task\", \"title\": \"New\"}"),
        value |-> [action |-> "update_task", title |-> Str("New")]],
       [text |-> Str("{\"action\": \"update_task\", \"task_id\": 1, \"title\": \"New\", \"user_id\": \"u2\"}"),
        value |-> [action |-> "update_task", task_id |-> 1, title |-> Str("New"), user_id |-> Str("u2")]],
       [text |-> Str("{\"action\": \"update_task\", \"task_id\": 2, \"title\": \"New\", \"user_id\": \"u2\"}"),
        value |-> [action |-> "update_task", task_id |-> 2, title |-> Str("New"), user_id |-> Str("u2")]],
       [text |-> Str("{\"action\": \"add_subtask\", \"task_id\": 1, \"subtask_title\": \"Step\"}"),
        value |-> [action |-> "add_subtask", task_id |-> 1, subtask_title |-> Str("Step")]],
       [text |-> Str("{\"action\": \"add_subtask\", \"task_id\": 2, \"subtask_title\": \"Step\"}"),
        value |-> [action |-> "add_subtask", task_id |-> 2, subtask_title |-> Str("Step")]],
       [text |-> Str("{\"action\": \"add_subtask\", \"task_id\": 9, \"subtask_title\": \"Step\"}"),
        value |-> [action |-> "add_subtask", task_id |-> 9, subtask_title |-> Str("Step")]],
       [text |-> Str("{\"action\": \"add_subtask\", \"subtask_title\": \"Step\"}"),
        value |-> [action |-> "add_subtask", subtask_title |-> Str("Step")]],
       [text |-> Str("{\"action\": \"add_subtask\", \"task_id\": 1, \"subtask_title\": \"Step\", \"user_id\": \"u2\"}"),
        value |-> [action |-> "add_subtask", task_id |-> 1, subtask_title |-> Str("Step"), user_id |-> Str("u2")]],
       [text |-> Str("{\"action\": \"add_subtask\", \"task_id\": 2, \"subtask_title\": \"Step\", \"user_id\": \"u2\"}"),
        value |-> [action |-> "add_subtask", task_id |-> 2, subtask_title |-> Str("Step"), user_id |-> Str("u2")]],
       [text |-> Str("{\"action\": \"complete_subtask\", \"subtask_id\": 1}"),
        value |-> [action |-> "complete_subtask", subtask_id |-> 1]],
       [text |-> Str("{\"action\": \"complete_subtask\", \"subtask_id\": 2}"),
        value |-> [action |-> "complete_subtask", subtask_id |-> 2]],
       [text |-> Str("{\"action\": \"complete_subtask\", \"subtask_id\": 9}"),
        value |-> [action |-> "complete_subtask", subtask_id |-> 9]],
       [text |-> Str("{\"action\": \"complete_subtask\"}"),
        value |-> [action |-> "complete_subtask"]],
       [text |-> Str("{\"action\": \"complete_subtask\", \"subtask_id\": 1, \"user_id\": \"u2\"}"),
        value |-> [action |-> "complete_subtask", subtask_id |-> 1, user_id |-> Str("u2")]],
       [text |-> Str("{\"action\": \"complete_subtask\", \"subtask_id\": 2, \"user_id\": \"u2\"}"),
        value |-> [action |-> "complete_subtask", subtask_id |-> 2, user_id |-> Str("u2")]],
       [text |-> Str("{\"action\": \"delete_subtask\", \"subtask_id\": 1}"),
        value |-> [action |-> "delete_subtask", subtask_id |-> 1]],
       [text |-> Str("{\"action\": \"delete_subtask\", \"subtask_id\": 2}"),
        value |-> [action |-> "delete_subtask", subtask_id |-> 2]],
       [text |-> Str("{\"action\": \"delete_subtask\", \"subtask_id\": 9}"),
        value |-> [action |-> "delete_subtask", subtask_id |-> 9]],
       [text |-> Str("{\"action\": \"delete_subtask\"}"),
        value |-> [action |-> "delete_subtask"]],
       [text |-> Str("{\"action\": \"delete_subtask\", \"subtask_id\": 1, \"user_id\": \"u2\"}"),
        value |-> [action |-> "delete_subtask", subtask_id |-> 1, user_id |-> Str("u2")]],
       [text |-> Str("{\"action\": \"delete_subtask\", \"subtask_id\": 2, \"user_id\": \"u2\"}"),
        value |-> [action |-> "delete_subtask", subtask_id |-> 2, user_id |-> Str("u2")]],
       [text |-> Str("{\"action\": \"search_tasks\", \"query\": \"rent\"}"),
        value |-> [action |-> "search_tasks", query |-> Str("rent")]],
       [text |-> Str("{\"action\": \"search_tasks\"}"),
        value |-> [action |-> "search_tasks"]],
       [text |-> Str("{\"action\": \"search_tasks\", \"query\": \"rent\", \"user_id\": \"u2\"}"),
        value |-> [action |-> "search_tasks", query |-> Str("rent"), user_id |-> Str("u2")]],
       [text |-> Str("{\"action\": \"add_subtask\", \"subtask_title\": null}"),
        value |-> [action |-> "add_subtask", subtask_title |-> None]],
       [text |-> Str("{\"action\": \"add_subtask\", \"task_id\": 1}"),
        value |-> [action |-> "add_subtask", task_id |-> 1]],
       [text |-> Str("{\"action\": \"create_task\", \"title\": \"Pay\", \"user_id\": \"u2\"}"),
        value |-> [action |-> "create_task", title |-> Str("Pay"), user_id |-> Str("u2")]] >>
AllJsonTexts == JsonTexts \o ActionTexts
json_loads_text(text) ==
    IF \E k \in 1..Len(AllJsonTexts) : AllJsonTexts[k].text = text
    THEN <<AllJsonTexts[CHOOSE k \in 1..Len(AllJsonTexts) : AllJsonTexts[k].text = text].value>>
    ELSE "JSONDecodeError"

\* str.find / str.rfind of one character: the 1-based position, 0 if absent
Find(text, c) ==
    IF \E i \in 1..Len(text) : text[i] = c
    THEN CHOOSE i \in 1..Len(text) : text[i] = c /\ \A j \in 1..(i - 1) : text[j] # c
    ELSE 0
RFind(text, c) ==
    IF \E i \in 1..Len(text) : text[i] = c
    THEN CHOOSE i \in 1..Len(text) : text[i] = c /\ \A j \in (i + 1)..Len(text) : text[j] # c
    ELSE 0

\* the dict in <<..>>, or <<>> for None
JsonLoaded(loaded) == IF loaded # "JSONDecodeError" THEN loaded ELSE <<>>
JsonBetween(text, start, end) ==
    IF start # 0 /\ end # 0 THEN JsonLoaded(json_loads_text(SubSeq(text, start, end)))
    ELSE <<>>
\* the span from the first opening brace to the first closing one
_extract_json_first_object(text) == JsonBetween(text, Find(text, "{"), Find(text, "}"))

_extract_json(text) == JsonBetween(text, Find(text, "{"), RFind(text, "}"))

ready_ur ==
    <<"U+0645", "U+06CC", "U+06BA", " ", "U+0622", "U+067E", " ", "U+06A9", "U+06CC", " ",
      "U+0645", "U+062F", "U+062F", " ", "U+06A9", "U+0631", "U+0646", "U+06D2", " ",
      "U+06A9", "U+06D2", " ", "U+0644", "U+06CC", "U+06D2", " ", "U+062A", "U+06CC",
      "U+0627", "U+0631", " ", "U+06C1", "U+0648", "U+06BA", "U+06D4", " ", "U+0628",
      "U+0631", "U+0627", "U+06C1", " ", "U+06A9", "U+0631", "U+0645", " ", "U+0628",
      "U+062A", "U+0627", "U+0626", "U+06CC", "U+06BA", " ", "U+0622", "U+067E", " ",
      "U+06A9", "U+06CC", "U+0627", " ", "U+06A9", "U+0631", "U+0646", "U+0627", " ",
      "U+0686", "U+0627", "U+06C1", "U+062A", "U+06D2", " ", "U+06C1", "U+06CC", "U+06BA",
      "U+061F">>

_clean_json_from_response(self, text) ==
    LET NoBrace == Star(NotChr({"{", "}"}))
        a == ReSub(Cat(<<Word("{"), NoBrace, Word("}")>>), <<>>, text, 1)
        b == ReSub(Cat(<<Word("{{"), NoBrace, Word("}}")>>), <<>>, a, 1)
        c == ReSub(Cat(<<Chr({"\n"}), Ws0, Chr({"\n"})>>), Str("\n\n"), b, 1)
        cleaned == Strip(c)
    IN IF cleaned = <<>>
       THEN IF self.language = "ur" THEN ready_ur
            ELSE Str("I'm ready to help you. What would you like to do?")
       ELSE cleaned

\* env.translation is the text the completion API answers with when it does
\* not fail
_translate_to_urdu(english_text, env) ==
    IF env.translation_fails THEN english_text ELSE Strip(env.translation)

\* any(c.isascii() and c.isalpha() for c in content[:50]) for a reply of
\* _execute_action: its English wordings have a letter there; the Urdu ones
\* of start_guided_task have none but in the title, which starts at the
\* 30th character
TitleOffset == 29
AsciiAlphaInFirst50(content) ==
    IF content[1] = "en" THEN TRUE
    ELSE \E k \in 1..Len(content[3]) :
            \E i \in 1..Len(content[3][k]) :
               i <= 50 - TitleOffset /\ IsAsciiAlpha(content[3][k][i])

\* the messages a client sends in phase IDLE: those the detector knows, and
\* one it leaves to the completion API
DirectMessages ==
    {Str("add task"), Str("add task buy milk"), Str("show my tasks"), Str("complete task 1")}
OtherMessage == Str("hello")
\* more of both kinds: listings with and without a qualifier, ids of tasks
\* that may not exist, upper case, and text no pattern accepts
ListingMessages ==
    {Str("show me all my tasks"), Str("Show Completed Tasks"), Str("list done tasks"),
     Str("view my finished tasks"), Str("show incomplete tasks"),
     Str("list all pending tasks"), Str("view active tasks"),
     Str("show me remaining tasks"), Str("my tasks")}
NumberedMessages == {Str("complete task 5"), Str("delete task 1"), Str("cancel task #5")}
UnmatchedMessages == {Str("foo bar baz"), Str("display completed tasks")}
\* creations that name the title: with capitals, and quoted with blanks around
TitledMessages == {Str("Add task Buy Milk"), Str(" new task: \"call mom\" ")}

\* _detect_direct_intent on the messages above, computed once
DetectedIntents ==
    [message \in DirectMessages \cup ListingMessages \cup NumberedMessages
                   \cup UnmatchedMessages \cup TitledMessages \cup {OtherMessage} |->
       _detect_direct_intent(message)]

\* the cancel keywords without the Urdu ones
CancelWordsEnglish == {Str("cancel"), Str("stop"), Str("exit"), Str("quit")}

CancelWords ==
    {Str("cancel"), Ur.mansookh, Ur.ruko, Str("stop"), Str("exit"), Str("quit")}

\* the length of the sequence of the characters of text[:n] that satisfy Test
CountIn(text, n, Test(_)) ==
    Len(SelectSeq(SubSeq(text, 1, IF Len(text) < n THEN Len(text) ELSE n), Test))

\* env.oracle is the text the completion API answers with when it does not
\* fail; the result has raised |-> TRUE when the exception leaves
\* process_message
Done(result) == result @@ [raised |-> FALSE]

\* the reply of an action the completion API asked for
Acted(result, translate, env) ==
    [result EXCEPT
       !.reply.content = IF translate THEN _translate_to_urdu(@, env) ELSE @,
       !.calls = @ \cup {"_call_openrouter"}
                   \cup (IF translate THEN {"_translate_to_urdu"} ELSE {})]
ProcessAction(self, action_data, result, env) ==
    Acted(result, self.language = "ur" /\ AsciiAlphaInFirst50(result.reply.content), env)

\* the reply that carries the completion API's text
Said(self, clean_response, translate, env) ==
    Returned(self,
             [type |-> "message",
              content |-> IF translate THEN _translate_to_urdu(clean_response, env)
                          ELSE clean_response],
             {"_call_openrouter"} \cup (IF translate THEN {"_translate_to_urdu"} ELSE {}))
\* the text translated as soon as it has an English letter
ProcessTextAnyLetter(self, clean_response, env) ==
    Said(self, clean_response,
         self.language = "ur" /\ CountIn(clean_response, 100, IsAsciiAlpha) > 0, env)
ProcessText(self, clean_response, env) ==
    Said(self, clean_response,
         self.language = "ur" /\ CountIn(clean_response, 100, IsAsciiAlpha) > 20, env)

ProcessAnswer(self, response, action_data, env) ==
    IF action_data # <<>> /\ "action" \in DOMAIN action_data[1]
    THEN ProcessAction(self, action_data[1], _execute_action(self, action_data[1], env), env)
    ELSE ProcessText(self, _clean_json_from_response(self, response), env)

\* process_message that has the reply of a detected action translated
ProcessIdleTranslating(self, direct_action, env) ==
    IF direct_action # <<>>
    THEN Done(Called(_execute_action(self, direct_action[1], env),
                     IF self.language = "ur" THEN "_translate_to_urdu"
                     ELSE "_execute_action"))
    ELSE IF env.oracle_fails
         THEN [raised |-> TRUE, self |-> self, calls |-> {"_call_openrouter"},
               error |-> env.oracle_error]
         ELSE Done(ProcessAnswer(self, env.oracle, _extract_json(env.oracle), env))

\* process_message that calls the completion API again when the call fails
ProcessIdleRetry(self, direct_action, env) ==
    IF direct_action # <<>>
    THEN Done(_execute_action(self, direct_action[1], env))
    ELSE Done(ProcessAnswer(self, env.oracle, _extract_json(env.oracle), env))

\* _call_openrouter raises Exception("OpenRouter API error: ...") for a
\* status that is not 2xx and lets every other exception of the client, a
\* timeout among them, pass; env.oracle_error is what str(e) holds
ProcessIdle(self, direct_action, env) ==
    IF direct_action # <<>>
    THEN Done(_execute_action(self, direct_action[1], env))
    ELSE IF env.oracle_fails
         THEN [raised |-> TRUE, self |-> self, calls |-> {"_call_openrouter"},
               error |-> env.oracle_error]
         ELSE Done(ProcessAnswer(self, env.oracle, _extract_json(env.oracle), env))

\* process_message that lets the detector see the message in every phase
process_message_detecting(self, message, env) ==
    IF Strip(Lower(message)) \in CancelWords /\ _get_state(self.conversation) # IDLE
    THEN Done(Returned([self EXCEPT !.conversation = _clear_pending_task(@)],
                       [type |-> "message",
                        content |-> Text(self.language, "Task creation cancelled", <<>>)],
                       {}))
    ELSE IF message \in DOMAIN DetectedIntents /\ DetectedIntents[message] # <<>>
         THEN Done(_execute_action(self, DetectedIntents[message][1], env))
    ELSE IF _get_state(self.conversation) # IDLE
         THEN Done(_handle_guided_flow(self, message, env))
         ELSE ProcessIdle(self, DetectedIntents[message], env)

process_message(self, message, env) ==
    IF Strip(Lower(message)) \in CancelWords /\ _get_state(self.conversation) # IDLE
    THEN Done(Returned([self EXCEPT !.conversation = _clear_pending_task(@)],
                       [type |-> "message",
                        content |-> Text(self.language, "Task creation cancelled", <<>>)],
                       {}))
    ELSE IF _get_state(self.conversation) # IDLE
         THEN Done(_handle_guided_flow(self, message, env))
         ELSE ProcessIdle(self, DetectedIntents[message], env)

(***************************************************************************)
(* The state machine.  One conversation of one user is followed from its   *)
(* creation; each request of POST /chat on it is one step, which is        *)
(* ChatService.process_message from the lookup of the conversation to the  *)
(* commit.  The rows of the messages table are written by every request    *)
(* and read by none of the code modelled here; they are left out.          *)
(***************************************************************************)
VARIABLES
    conversation,   \* the conversations row: guided_state, pending_task_json
    db,             \* the tasks, categories, tags and task_tags tables
    request,        \* the last request: message, language, env, and what it met:
                    \* guided_state, pending fields, numbers of tasks and categories
    response,       \* what ChatService.process_message returned for it
    calls,          \* the agent methods that ran while it was handled
    flow,           \* history of the guided flow in progress or just ended
    seed,           \* the last ids of the rows the database held at the start
    sessions,       \* the requests in progress, each with its own database
                    \* session: the row it loaded, the row it is about to commit
    chats           \* the conversations and messages tables of all users, and
                    \* what the chat endpoint answered to the last request

vars == <<conversation, db, request, response, calls, flow, seed, sessions, chats>>

\* the number of tasks the conversation may create
MaxTasks == 1
\* the number of optional fields a flow may answer instead of skipping
MaxAnswers == 2
\* the number of blank messages a flow may send when asked for the title
MaxBlanks == 2
\* the number of subtasks the conversation may add
MaxSubtasks == 1

user_id == "u1"

\* the requests that may be in progress at once
Workers == {1, 2}
\* a session that has loaded nothing
NoSession ==
    [pc |-> "closed", loaded |-> None, after |-> None, message |-> <<>>,
     tasks |-> 0, overlaps |-> FALSE, finalizes |-> FALSE, created |-> 0,
     requests |-> 0]

\* no conversation, no message, no request yet
NoChats ==
    [conversations |-> <<>>, messages |-> <<>>, seq |-> 0,
     reply |-> [user_id |-> None, conversation_id |-> 0, status |-> 0, detail |-> None]]

NoFlow ==
    [title |-> None, inline |-> FALSE, blanks |-> 0, skips |-> 0, answers |-> 0, tasks |-> 0]

Init ==
    /\ conversation = [guided_state |-> IDLE, pending_task_json |-> None]
    /\ db = [tasks |-> <<>>, subtasks |-> <<>>, categories |-> <<>>, tags |-> <<>>,
             task_tags |-> <<>>,
             seq |-> [tasks |-> 0, subtasks |-> 0, categories |-> 0, tags |-> 0]]
    /\ request = [message |-> <<>>, language |-> "en", env |-> None, state |-> None,
                  pending |-> EmptyDict, tasks |-> 0, categories |-> 0]
    /\ response = [type |-> None, response |-> None, data |-> None]
    /\ calls = {}
    /\ flow = NoFlow
    /\ seed = [tasks |-> 0, subtasks |-> 0]
    /\ sessions = [w \in Workers |-> NoSession]
    /\ chats = NoChats

\* ChatService.process_message from the agent's result on
ChatService_response(out) ==
    IF out.raised
    THEN [type |-> "error",
          response |-> IF out.error = "OpenRouter API error"
                       THEN Str("Sorry, I'm having trouble connecting to the AI service right now. Please try again later.")
                       ELSE Str("Sorry, I encountered an error: ") \o Str(out.error),
          data |-> None]
    ELSE [type |-> DictGet(out.reply, "type", "message"),
          response |-> DictGet(out.reply, "content", Str("I'm not sure how to help with that.")),
          data |-> IF "task" \in DOMAIN out.reply THEN [task |-> out.reply.task]
                   ELSE IF "tasks" \in DOMAIN out.reply THEN [tasks |-> out.reply.tasks]
                   ELSE None]

\* a message that answers the question of an optional step
IsAnswer(state, message) ==
    /\ state \notin {IDLE, AWAITING_TITLE}
    /\ Strip(Lower(message)) \notin SkipWords \cup CancelWords

\* a blank message that answers the question for the title
IsBlank(state, message) == state = AWAITING_TITLE /\ Strip(message) = <<>>

\* the history: which title the flow accepted, whether it came with the
\* opening message, how many messages since were 'skip', how many answered
FlowAfter(before, after, message) ==
    LET state == before.guided_state
        next == after.guided_state
        title == DictGet(get_pending_task(after), "title", None)
    IN IF state = IDLE
       THEN IF next = IDLE THEN NoFlow
            ELSE [NoFlow EXCEPT !.title = title,
                                !.inline = (next = AWAITING_DESCRIPTION),
                                !.tasks = db.seq.tasks]
       ELSE IF state = AWAITING_TITLE
            THEN IF next = AWAITING_DESCRIPTION THEN [flow EXCEPT !.title = title]
                 ELSE IF IsBlank(state, message) THEN [flow EXCEPT !.blanks = @ + 1]
                 ELSE flow
       ELSE IF message = Str("skip") THEN [flow EXCEPT !.skips = @ + 1]
       ELSE IF IsAnswer(state, message) THEN [flow EXCEPT !.answers = @ + 1]
       ELSE flow

\* one request: the message and the language come from the client, env from
\* the completion API and the database
Request(language, message, env) ==
    \E out \in {process_message([conversation |-> conversation, language |-> language,
                                 user_id |-> user_id, db |-> db], message, env)} :
       /\ \/ db.seq.tasks - seed.tasks < MaxTasks
          \/ /\ out.self.conversation.guided_state = IDLE
             /\ out.self.db.seq.tasks = db.seq.tasks
       /\ out.self.db.seq.subtasks - seed.subtasks <= MaxSubtasks
       /\ IsAnswer(_get_state(conversation), message) => flow.answers < MaxAnswers
       /\ IsBlank(_get_state(conversation), message) => flow.blanks < MaxBlanks
       /\ conversation' = out.self.conversation
       /\ db' = out.self.db
       /\ request' = [message |-> message, language |-> language, env |-> env,
                      state |-> _get_state(conversation),
                      pending |-> get_pending_task(conversation),
                      tasks |-> Len(db.tasks), categories |-> Len(db.categories)]
       /\ response' = ChatService_response(out)
       /\ calls' = out.calls
       /\ flow' = FlowAfter(conversation, out.self.conversation, message)
       /\ seed' = seed
       /\ sessions' = sessions
       /\ chats' = chats

(***************************************************************************)
(* The requests of the model: per phase, the messages a client sends and   *)
(* what the collaborators do.  faults says whether the completion API and  *)
(* the database may fail.                                                  *)
(***************************************************************************)
Languages == {"en", "ur"}

Calm ==
    [oracle |-> Str("Hi there"),
     description |-> Str("Description: Get milk"),
     translation |-> Ur.mukammal,
     oracle_fails |-> FALSE,
     oracle_error |-> "OpenRouter API error",
     description_fails |-> FALSE,
     translation_fails |-> FALSE,
     category_fails |-> FALSE,
     task_fails |-> FALSE,
     tag_faults |-> <<>>,
     fk_enforced |-> TRUE,
     search |-> {}]

OracleTexts ==
    {Str("Hi there"),
     Str("Ok {\"action\": \"create_task\", \"title\": \"Pay\"}"),
     Str("{\"action\": \"fly\"}"),
     Str("{\"title\": \"x\"}"),
     Str("{oops}")}
\* more texts of the completion API: braces in prose, an object followed by
\* prose, two objects, a closing brace before the opening one, and a text
\* with more than 20 English letters
ProseTexts ==
    {Str("No {oops} way"),
     Str("{\"action\": \"fly\"} done"),
     Str("{\"action\": \"fly\"} {\"action\": \"fly\"}"),
     Str("} {"),
     Str("I can help you manage your tasks")}

\* the <<message, env>> pairs of a request that meets phase IDLE
IdleCases(faults) ==
    {<<m, Calm>> : m \in DirectMessages}
      \cup {<<OtherMessage, [Calm EXCEPT !.oracle = o]>> : o \in OracleTexts}
      \cup (IF faults
            THEN {<<OtherMessage, [Calm EXCEPT !.oracle_fails = TRUE]>>,
                  <<OtherMessage,
                    [Calm EXCEPT !.oracle_fails = TRUE, !.oracle_error = "ReadTimeout"]>>,
                  <<OtherMessage, [Calm EXCEPT !.translation_fails = TRUE]>>,
                  <<OtherMessage,
                    [Calm EXCEPT !.oracle = Str("{\"action\": \"fly\"}"),
                                 !.translation_fails = TRUE]>>,
                  <<OtherMessage,
                    [Calm EXCEPT
                       !.oracle = Str("Ok {\"action\": \"create_task\", \"title\": \"Pay\"}"),
                       !.task_fails = TRUE]>>}
            ELSE {})

TitleMessages == {Str("Buy milk"), Str("   "), <<>>, Str(" Cancel ")}
DescriptionMessages == {Str("skip"), Str("write it"), Str("stop")}
CategoryMessages == {Str("skip"), Str("work"), Ur.mansookh}
PriorityMessages == {Str("skip"), Str("high"), Str("exit")}
DueDateMessages == {Str("skip"), Str("tomorrow"), Str("garbage"), Ur.ruko}
RecurrenceMessages == {Str("skip"), Str("daily"), Str("quit")}
DescriptionEnvs(faults) ==
    {Calm} \cup (IF faults THEN {[Calm EXCEPT !.description_fails = TRUE]} ELSE {})

TagFaults == {"ok", "create", "attach"}
TagList == Str("#a #b")
FinalizeEnvs(faults) ==
    {Calm} \cup (IF faults
                 THEN {[Calm EXCEPT !.category_fails = TRUE], [Calm EXCEPT !.task_fails = TRUE]}
                 ELSE {})
TagEnvs(faults) ==
    IF faults
    THEN {[Calm EXCEPT !.tag_faults = f] :
             f \in [1..Len(ParseTags(TagList).value) -> TagFaults]}
    ELSE {}
\* the <<message, env>> pairs of a request that meets phase AWAITING_TAGS
TagsCases(faults) ==
    {<<Str("cancel"), Calm>>}
      \cup {<<Str("skip"), e>> : e \in FinalizeEnvs(faults)}
      \cup {<<TagList, e>> : e \in FinalizeEnvs(faults) \cup TagEnvs(faults)}

IdleRequest(faults) ==
    /\ _get_state(conversation) = IDLE
    /\ \E language \in Languages, case \in IdleCases(faults) :
          Request(language, case[1], case[2])

TitleRequest ==
    /\ _get_state(conversation) = AWAITING_TITLE
    /\ \E language \in Languages, message \in TitleMessages : Request(language, message, Calm)

DescriptionRequest(faults) ==
    /\ _get_state(conversation) = AWAITING_DESCRIPTION
    /\ \E language \in Languages, message \in DescriptionMessages, env \in DescriptionEnvs(faults) :
          Request(language, message, env)

CategoryRequest ==
    /\ _get_state(conversation) = AWAITING_CATEGORY
    /\ \E language \in Languages, message \in CategoryMessages : Request(language, message, Calm)

PriorityRequest ==
    /\ _get_state(conversation) = AWAITING_PRIORITY
    /\ \E language \in Languages, message \in PriorityMessages : Request(language, message, Calm)

DueDateRequest ==
    /\ _get_state(conversation) = AWAITING_DUE_DATE
    /\ \E language \in Languages, message \in DueDateMessages : Request(language, message, Calm)

RecurrenceRequest ==
    /\ _get_state(conversation) = AWAITING_RECURRENCE
    /\ \E language \in Languages, message \in RecurrenceMessages : Request(language, message, Calm)

TagsRequest(faults) ==
    /\ _get_state(conversation) = AWAITING_TAGS
    /\ \E language \in Languages, case \in TagsCases(faults) :
          Request(language, case[1], case[2])

\* the collaborators answer
Next ==
    \/ IdleRequest(FALSE)
    \/ TitleRequest
    \/ DescriptionRequest(FALSE)
    \/ CategoryRequest
    \/ PriorityRequest
    \/ DueDateRequest
    \/ RecurrenceRequest
    \/ TagsRequest(FALSE)

Spec == Init /\ [][Next]_vars

\* the collaborators may fail
NextFaults ==
    \/ IdleRequest(TRUE)
    \/ TitleRequest
    \/ DescriptionRequest(TRUE)
    \/ CategoryRequest
    \/ PriorityRequest
    \/ DueDateRequest
    \/ RecurrenceRequest
    \/ TagsRequest(TRUE)

SpecFaults == Init /\ [][NextFaults]_vars

(***************************************************************************)
(* The actions on rows that exist.  The conversation starts on a database  *)
(* that holds a task of the user with a subtask, a task of another user    *)
(* with a subtask, and a category of the user; its requests meet phase     *)
(* IDLE and leave it there.                                                *)
(***************************************************************************)
other_user_id == "u2"

SeedTask(id, owner, title) ==
    [id |-> id, user_id |-> owner, title |-> title, description |-> None,
     is_completed |-> FALSE, priority |-> "medium", due_date |-> None, category_id |-> 0,
     recurrence_pattern |-> None, recurrence_interval |-> 1]
SeedSubtask(id, parent_task_id, title) ==
    [id |-> id, parent_task_id |-> parent_task_id, title |-> title,
     is_completed |-> FALSE, order |-> 0]
SeedDb ==
    [tasks |-> <<SeedTask(1, user_id, Str("Pay rent")),
                 SeedTask(2, other_user_id, Str("Secret"))>>,
     subtasks |-> <<SeedSubtask(1, 1, Str("Call")), SeedSubtask(2, 2, Str("Hide"))>>,
     categories |-> <<[id |-> 1, user_id |-> user_id, name |-> Str("WORK"),
                       color |-> Str("#3B82F6"), icon |-> "U+1F4BC"]>>,
     tags |-> <<>>,
     task_tags |-> <<>>,
     seq |-> [tasks |-> 2, subtasks |-> 2, categories |-> 1, tags |-> 0]]

InitSeeded ==
    /\ conversation = [guided_state |-> IDLE, pending_task_json |-> None]
    /\ db = SeedDb
    /\ request = [message |-> <<>>, language |-> "en", env |-> None, state |-> None,
                  pending |-> EmptyDict, tasks |-> 0, categories |-> 0]
    /\ response = [type |-> None, response |-> None, data |-> None]
    /\ calls = {}
    /\ flow = NoFlow
    /\ seed = [tasks |-> 2, subtasks |-> 2]
    /\ sessions = [w \in Workers |-> NoSession]
    /\ chats = NoChats

\* the index of the database matches both tasks with the query
ActionEnv(text) == [Calm EXCEPT !.oracle = text, !.search = {1, 2}]
\* the <<message, env>> pairs of the requests that have the completion API
\* ask for an action
ActionCases ==
    {<<OtherMessage, ActionEnv(ActionTexts[k].text)>> : k \in 1..Len(ActionTexts)}
      \cup {<<OtherMessage,
              [ActionEnv(Str("{\"action\": \"delete_task\", \"task_id\": 1}"))
                 EXCEPT !.fk_enforced = FALSE]>>}

ActionRequest ==
    /\ _get_state(conversation) = IDLE
    /\ \E language \in Languages, case \in ActionCases :
          Request(language, case[1], case[2])

NextActions == ActionRequest

SpecActions == InitSeeded /\ [][NextActions]_vars

\* the <<message, env>> pairs of the requests that the detector answers or
\* that the completion API answers with prose
ChatCases ==
    {<<m, Calm>> : m \in ListingMessages \cup NumberedMessages \cup UnmatchedMessages
                          \cup {Str("show my tasks"), Str("complete task 1")}}
      \cup {<<OtherMessage, [Calm EXCEPT !.oracle = o]>> : o \in ProseTexts \cup OracleTexts}

ChatRequest ==
    /\ _get_state(conversation) = IDLE
    /\ \E language \in Languages, case \in ChatCases :
          Request(language, case[1], case[2])

NextChat == ChatRequest

SpecChat == InitSeeded /\ [][NextChat]_vars

(***************************************************************************)
(* The guided flow of a user who has a category: the conversation starts   *)
(* on the seeded database, and the question for the category may be        *)
(* answered by a number.                                                   *)
(***************************************************************************)
OwnedCategoryMessages == CategoryMessages \cup {Str("1")}

OwnedCategoryRequest ==
    /\ _get_state(conversation) = AWAITING_CATEGORY
    /\ \E language \in Languages, message \in OwnedCategoryMessages :
          Request(language, message, Calm)

NextOwned ==
    \/ IdleRequest(FALSE)
    \/ TitleRequest
    \/ DescriptionRequest(FALSE)
    \/ OwnedCategoryRequest
    \/ PriorityRequest
    \/ DueDateRequest
    \/ RecurrenceRequest
    \/ TagsRequest(FALSE)

SpecOwned == InitSeeded /\ [][NextOwned]_vars

(***************************************************************************)
(* The flows opened by a message that names the title.                     *)
(***************************************************************************)
TitledRequest ==
    /\ _get_state(conversation) = IDLE
    /\ \E language \in Languages, message \in TitledMessages :
          Request(language, message, Calm)

NextTitles ==
    \/ TitledRequest
    \/ DescriptionRequest(FALSE)
    \/ CategoryRequest
    \/ PriorityRequest
    \/ DueDateRequest
    \/ RecurrenceRequest
    \/ TagsRequest(FALSE)

SpecTitles == Init /\ [][NextTitles]_vars

(***************************************************************************)
(* Commands sent in the middle of a flow, on the database that holds       *)
(* tasks: what the detector would act on in phase IDLE is here the answer  *)
(* to the question of the phase.                                           *)
(***************************************************************************)
CommandMessages(state) ==
    CASE state = IDLE -> {Str("add task"), Str("add task buy milk")}
      [] state = AWAITING_TITLE -> {Str("delete task 1")}
      [] state = AWAITING_DESCRIPTION -> {Str("complete task 1"), Str("skip")}
      [] state \in {AWAITING_PRIORITY, AWAITING_DUE_DATE} -> {Str("show my tasks"), Str("skip")}
      [] OTHER -> {Str("delete task 1"), Str("skip")}

CommandRequest ==
    \E language \in Languages, message \in CommandMessages(_get_state(conversation)) :
        Request(language, message, Calm)

NextCommands == CommandRequest

SpecCommands == InitSeeded /\ [][NextCommands]_vars

(***************************************************************************)
(* The chat endpoint for several users.  chats holds the conversations     *)
(* table (id, user_id, guided_state, pending_task_json) and the messages   *)
(* table; a request names the user of its token and a conversation id, or  *)
(* no id, for which a conversation is created.  An id is 0 when absent.    *)
(***************************************************************************)
\* the number of rows of the messages table
MaxMessages == 16
\* the number of conversations the users open
MaxConversations == 2

\* ChatService.create_conversation
create_conversation(c, owner) ==
    [c EXCEPT !.conversations =
                  Append(@, [id |-> c.seq + 1, user_id |-> owner,
                             guided_state |-> IDLE, pending_task_json |-> None]),
              !.seq = @ + 1]

\* ChatService.save_message
save_message(c, conversation_id, role, content) ==
    [c EXCEPT !.messages = Append(@, [conversation_id |-> conversation_id,
                                      role |-> role, content |-> content])]

\* the positions of the rows the SELECT of step 1 returns, with the filter
\* on the id only
SelectedById(c, owner, conversation_id) ==
    {k \in 1..Len(c.conversations) : c.conversations[k].id = conversation_id}
\* and with the filter on the id and the user
Selected(c, owner, conversation_id) ==
    {k \in 1..Len(c.conversations) :
        /\ c.conversations[k].id = conversation_id
        /\ c.conversations[k].user_id = owner}

\* steps 2, 5 (the commit) and 6 of ChatService.process_message on the row at
\* position k, out being what the agent made of the message
Processed(c, k, message, out) ==
    [raised |-> FALSE,
     chats |-> save_message(
                   [save_message(c, c.conversations[k].id, "user", message)
                       EXCEPT !.conversations[k].guided_state =
                                  out.self.conversation.guided_state,
                              !.conversations[k].pending_task_json =
                                  out.self.conversation.pending_task_json],
                   c.conversations[k].id, "assistant", ChatService_response(out).response),
     db |-> out.self.db,
     response |-> ChatService_response(out),
     calls |-> out.calls \cup {"process_message"}]

\* the conversation of step 4, the one the agent is created with
AgentOf(c, d, owner, k, language) ==
    [conversation |-> [guided_state |-> c.conversations[k].guided_state,
                       pending_task_json |-> c.conversations[k].pending_task_json],
     language |-> language, user_id |-> owner, db |-> d]

\* ChatService.process_message; conversation_id 0: none given
ChatService_process_message(c, d, owner, message, conversation_id, language, env) ==
    IF conversation_id # 0 /\ Selected(c, owner, conversation_id) = {}
    THEN [raised |-> TRUE, error |-> "Conversation not found or access denied",
          chats |-> c, db |-> d, calls |-> {}, response |-> None]
    ELSE \* the conversation found, or the one created
         LET opened == IF conversation_id # 0 THEN c ELSE create_conversation(c, owner)
             k == IF conversation_id # 0
                  THEN CHOOSE j \in Selected(c, owner, conversation_id) : TRUE
                  ELSE Len(c.conversations) + 1
         IN Processed(opened, k, message,
                      process_message(AgentOf(opened, d, owner, k, language), message, env))

\* the users of the chat endpoint
Users == {user_id, other_user_id}

\* what a user sends to a conversation in a phase
AccessMessages(state) ==
    IF state = IDLE THEN {Str("add task buy milk")}
    ELSE IF state = AWAITING_PRIORITY THEN {Str("skip"), Str("cancel")}
    ELSE {Str("skip")}

\* the phase of the conversation with an id, IDLE when there is none
PhaseOf(c, conversation_id) ==
    IF SelectedById(c, None, conversation_id) = {} THEN IDLE
    ELSE c.conversations[CHOOSE k \in SelectedById(c, None, conversation_id) : TRUE].guided_state

\* send_message: POST /api/chat of a user, with a conversation id or none (0);
\* the id chats.seq + 1 is the id of no conversation
SendMessage(owner, conversation_id, message) ==
    \E out \in {ChatService_process_message(chats, db, owner, message,
                                            conversation_id, "en", Calm)} :
       /\ Len(chats.messages) + 2 <= MaxMessages
       /\ conversation_id = 0 => chats.seq < MaxConversations
       /\ chats' = [out.chats EXCEPT !.reply =
                       [user_id |-> owner, conversation_id |-> conversation_id,
                        status |-> IF out.raised THEN 404 ELSE 200,
                        detail |-> IF out.raised THEN out.error ELSE None]]
       /\ db' = out.db
       /\ calls' = out.calls
       /\ response' = IF out.raised THEN response ELSE out.response
       /\ UNCHANGED <<conversation, request, flow, seed, sessions>>

AccessRequest ==
    \E owner \in Users, conversation_id \in 0..(chats.seq + 1) :
        \E message \in AccessMessages(PhaseOf(chats, conversation_id)) :
            SendMessage(owner, conversation_id, message)

NextAccess == AccessRequest

SpecAccess == Init /\ [][NextAccess]_vars

(***************************************************************************)
(* Requests in progress at once on one conversation.  Every request has a  *)
(* database session of its own (get_session).  ChatService loads the       *)
(* conversation row into the session and the agent reads and writes that   *)
(* copy; a commit writes the columns the session changed since it loaded   *)
(* the row.  The services commit what they insert, so the finalization     *)
(* commits its task (and the recorded tags with it) before ChatService     *)
(* commits the row the agent has cleared.  Nothing orders the sessions.    *)
(***************************************************************************)
\* the number of tasks after which no further flow is opened
MaxRaceTasks == 2
\* the number of requests the clients send
MaxRequests == 9

\* the messages a client sends in each phase
RaceMessages(state) ==
    CASE state = IDLE -> {Str("add task buy milk")}
      [] state = AWAITING_PRIORITY -> {Str("skip"), Str("high"), Str("cancel")}
      [] state = AWAITING_TAGS -> {Str("skip"), TagList}
      [] OTHER -> {Str("skip")}

\* the UPDATE of a commit: the columns whose value the session changed
Flush(committed, loaded, current) ==
    [guided_state |-> IF current.guided_state # loaded.guided_state
                      THEN current.guided_state ELSE committed.guided_state,
     pending_task_json |-> IF get_pending_task(current) # get_pending_task(loaded)
                           THEN current.pending_task_json
                           ELSE committed.pending_task_json]

\* a request that has loaded the row and has not committed
InProgress(w) == sessions[w].pc \in {"loaded", "ran"}

\* ChatService.process_message up to the agent: the session loads the row
Begin(w) ==
    /\ ~InProgress(w)
    /\ sessions[1].requests + sessions[2].requests < MaxRequests
    /\ _get_state(conversation) = IDLE => db.seq.tasks - seed.tasks < MaxRaceTasks
    /\ \E message \in RaceMessages(_get_state(conversation)) :
          sessions' = [v \in Workers |->
                         IF v = w
                         THEN [pc |-> "loaded", loaded |-> conversation,
                               after |-> conversation, message |-> message,
                               tasks |-> Len(db.tasks),
                               overlaps |-> \E u \in Workers \ {w} : InProgress(u),
                               finalizes |-> FALSE, created |-> 0,
                               requests |-> sessions[w].requests + 1]
                         ELSE IF InProgress(v) THEN [sessions[v] EXCEPT !.overlaps = TRUE]
                         ELSE sessions[v]]
    /\ UNCHANGED <<conversation, db, request, response, calls, flow, seed, chats>>

\* the agent working on the row as it is committed when the agent runs
RunReloading(w) ==
    /\ sessions[w].pc = "loaded"
    /\ \E out \in {process_message([conversation |-> conversation, language |-> "en",
                                    user_id |-> user_id, db |-> db],
                                   sessions[w].message, Calm)} :
          /\ out.self.db.seq.tasks - seed.tasks <= MaxRaceTasks
          /\ db' = out.self.db
          /\ conversation' =
                IF "_finalize_guided_task" \in out.calls
                THEN Flush(conversation, conversation,
                           TagsRecorded(conversation, sessions[w].message))
                ELSE conversation
          /\ sessions' = [sessions EXCEPT
                             ![w].pc = "ran",
                             ![w].after = out.self.conversation,
                             ![w].finalizes = "_finalize_guided_task" \in out.calls,
                             ![w].created = IF out.self.db.seq.tasks > db.seq.tasks
                                            THEN out.self.db.seq.tasks ELSE 0]
          /\ request' = [message |-> sessions[w].message, language |-> "en", env |-> Calm,
                         state |-> _get_state(conversation),
                         pending |-> get_pending_task(conversation),
                         tasks |-> Len(db.tasks), categories |-> Len(db.categories)]
          /\ response' = ChatService_response(out)
          /\ calls' = out.calls
    /\ UNCHANGED <<flow, seed, chats>>

\* agent.process_message on the loaded row: the services commit their rows,
\* and the first commit of the finalization takes the recorded tags with it
Run(w) ==
    /\ sessions[w].pc = "loaded"
    /\ \E out \in {process_message([conversation |-> sessions[w].loaded, language |-> "en",
                                    user_id |-> user_id, db |-> db],
                                   sessions[w].message, Calm)} :
          /\ out.self.db.seq.tasks - seed.tasks <= MaxRaceTasks
          /\ db' = out.self.db
          /\ conversation' =
                IF "_finalize_guided_task" \in out.calls
                THEN Flush(conversation, sessions[w].loaded,
                           TagsRecorded(sessions[w].loaded, sessions[w].message))
                ELSE conversation
          /\ sessions' = [sessions EXCEPT
                             ![w].pc = "ran",
                             ![w].after = out.self.conversation,
                             ![w].finalizes = "_finalize_guided_task" \in out.calls,
                             ![w].created = IF out.self.db.seq.tasks > db.seq.tasks
                                            THEN out.self.db.seq.tasks ELSE 0]
          /\ request' = [message |-> sessions[w].message, language |-> "en", env |-> Calm,
                         state |-> _get_state(sessions[w].loaded),
                         pending |-> get_pending_task(sessions[w].loaded),
                         tasks |-> Len(db.tasks), categories |-> Len(db.categories)]
          /\ response' = ChatService_response(out)
          /\ calls' = out.calls
    /\ UNCHANGED <<flow, seed, chats>>

\* self.session.commit() of ChatService.process_message
Commit(w) ==
    /\ sessions[w].pc = "ran"
    /\ conversation' = Flush(conversation, sessions[w].loaded, sessions[w].after)
    /\ sessions' = [sessions EXCEPT ![w].pc = "committed"]
    /\ UNCHANGED <<db, request, response, calls, flow, seed, chats>>

NextRace == \E w \in Workers : Begin(w) \/ Run(w) \/ Commit(w)

SpecRace == Init /\ [][NextRace]_vars

(***************************************************************************)
(* The properties.  Each is a predicate on the state a request leaves      *)
(* behind: request holds what the request met, the other variables what    *)
(* it left.                                                                *)
(***************************************************************************)
Phase == _get_state(conversation)
Pending == get_pending_task(conversation)
Blank == {<<>>, Str(" "), Str("   ")}

CancelKeywords ==
    {Str("cancel"), Str("stop"), Str("exit"), Str("quit"), Ur.mansookh, Ur.ruko}
CancelMet ==
    /\ request.state \notin {None, IDLE}
    /\ Strip(Lower(request.message)) \in CancelKeywords

\* C1: a message whose trimmed, lower-cased text is a cancel keyword, met in
\* any phase other than IDLE and in either locale, leaves the phase IDLE and
\* the pending fields empty, is answered by the cancellation confirmation of
\* type 'message', runs no step handler and creates no task.
C1_CancelResets ==
    CancelMet =>
        /\ Phase = IDLE
        /\ Pending = EmptyDict
        /\ conversation.pending_task_json = None
        /\ response.type = "message"
        /\ response.response = Text(request.language, "Task creation cancelled", <<>>)
        /\ calls = {}
        /\ Len(db.tasks) = request.tasks

\* an Urdu cancel keyword sent by an English-locale client in the middle of
\* a flow that has collected fields
C1_Witness ==
    /\ request.state = AWAITING_DUE_DATE
    /\ request.message = Ur.ruko
    /\ request.language = "en"
    /\ "priority" \in DOMAIN request.pending
    /\ Phase = IDLE

BlankMet == request.state = AWAITING_TITLE /\ request.message \in Blank

\* C2: in phase AWAITING_TITLE an empty or whitespace-only message leaves the
\* phase AWAITING_TITLE and the pending fields as they were, with no title,
\* and is answered by the question for the title again (type 'guided_step'),
\* however many blank messages came before it.
C2_BlankTitleStays ==
    BlankMet =>
        /\ Phase = AWAITING_TITLE
        /\ Pending = request.pending
        /\ "title" \notin DOMAIN Pending
        /\ response.type = "guided_step"
        /\ response.response = Text(request.language, "Please enter the task title", <<>>)

\* the second blank message in a row
C2_Witness ==
    /\ BlankMet
    /\ request.message = Str("   ")
    /\ flow.blanks = 2
    /\ Phase = AWAITING_TITLE

\* the steps after the title, in the order they are asked
OptionalPhases ==
    <<AWAITING_DESCRIPTION, AWAITING_CATEGORY, AWAITING_PRIORITY, AWAITING_DUE_DATE,
      AWAITING_RECURRENCE, AWAITING_TAGS>>
\* the task a request created
NewTask == db.tasks[Len(db.tasks)]
TagsOf(task) == {k \in 1..Len(db.task_tags) : db.task_tags[k].task_id = task.id}

\* the request that ends a flow which began with the title in its opening
\* message and answered 'skip' at each of the six steps
SixSkips ==
    /\ request.state = AWAITING_TAGS
    /\ request.message = Str("skip")
    /\ flow.inline
    /\ flow.skips = Len(OptionalPhases)
    /\ flow.answers = 0

\* C3: a flow started from IDLE by start_guided_task with an inline title T
\* and answered with 'skip' at each of the six steps creates exactly one
\* task: its title is T, its priority 'medium', its description, due date,
\* category, recurrence pattern and tags unset; the conversation is left
\* IDLE with empty pending fields.
C3_SixSkipsDefaults ==
    SixSkips =>
        /\ Len(db.tasks) = flow.tasks + 1
        /\ NewTask.title = flow.title
        /\ NewTask.title # <<>>
        /\ NewTask.priority = "medium"
        /\ NewTask.description = None
        /\ NewTask.due_date = None
        /\ NewTask.category_id = 0
        /\ NewTask.recurrence_pattern = None
        /\ TagsOf(NewTask) = {}
        /\ response.type = "task_created"
        /\ Phase = IDLE
        /\ Pending = EmptyDict

\* the flow opened by 'add task buy milk' and skipped through
C3_Witness ==
    /\ SixSkips
    /\ flow.title = Str("buy milk")
    /\ Len(db.tasks) = 1
    /\ NewTask.title = Str("buy milk")

\* C4: in the guided flow a task is created only by a message met in phase
\* AWAITING_TAGS: a message met in any other phase than IDLE and
\* AWAITING_TAGS leaves the tasks as they were (so 'skip' sent twice from
\* AWAITING_DESCRIPTION creates none), and a flow creates at most one task.
C4_OnlyTagsStepCreates ==
    /\ request.state \notin {None, IDLE, AWAITING_TAGS} =>
          /\ Len(db.tasks) = request.tasks
          /\ db.tasks = SubSeq(db.tasks, 1, request.tasks)
          /\ Len(db.tasks) = flow.tasks
    /\ request.state = AWAITING_TAGS => Len(db.tasks) \in {flow.tasks, flow.tasks + 1}

\* 'skip' at AWAITING_DESCRIPTION and 'skip' again
C4_Witness ==
    /\ request.state = AWAITING_CATEGORY
    /\ request.message = Str("skip")
    /\ flow.skips = 2
    /\ flow.answers = 0
    /\ Phase = AWAITING_PRIORITY
    /\ db.tasks = <<>>

\* C6: in every state a completed request leaves behind, whether it
\* cancelled, finalized or failed to finalize, phase IDLE implies that the
\* pending fields are empty and pending_task_json holds nothing.
C6_IdleHasNoPending ==
    Phase = IDLE => Pending = EmptyDict /\ conversation.pending_task_json = None

\* a finalization that failed on a flow with collected fields
C6_Witness ==
    /\ request.state = AWAITING_TAGS
    /\ request.env.task_fails
    /\ "priority" \in DOMAIN request.pending
    /\ response.type = "error"
    /\ Phase = IDLE

\* C7: in every state a completed request leaves behind, a phase from
\* AWAITING_DESCRIPTION to AWAITING_TAGS implies that the pending fields
\* hold a non-empty title, the one the flow accepted when it started: the
\* trimmed answer to the title question or the inline title.
C7_TitleKept ==
    (\E i \in DOMAIN OptionalPhases : Phase = OptionalPhases[i]) =>
        /\ "title" \in DOMAIN Pending
        /\ Pending.title # <<>>
        /\ Pending.title # None
        /\ Pending.title = flow.title
        /\ request.state = AWAITING_TITLE => Pending.title = Strip(request.message)
        /\ request.state \notin {IDLE, AWAITING_TITLE} => Pending.title = request.pending.title

\* the last step of a flow that answered two questions after its title
C7_Witness ==
    /\ Phase = AWAITING_TAGS
    /\ flow.answers = 2
    /\ ~flow.inline
    /\ Pending.title = Str("Buy milk")
    /\ DOMAIN Pending # {"title"}

\* the phase that follows a phase in the order of the flow
NextPhase(phase) ==
    CASE phase = AWAITING_TITLE -> AWAITING_DESCRIPTION
      [] phase = AWAITING_DESCRIPTION -> AWAITING_CATEGORY
      [] phase = AWAITING_CATEGORY -> AWAITING_PRIORITY
      [] phase = AWAITING_PRIORITY -> AWAITING_DUE_DATE
      [] phase = AWAITING_DUE_DATE -> AWAITING_RECURRENCE
      [] phase = AWAITING_RECURRENCE -> AWAITING_TAGS
      [] phase = AWAITING_TAGS -> IDLE

\* C8: the phase moves along one line: from IDLE to AWAITING_TITLE or to
\* AWAITING_DESCRIPTION, then from each phase to the next one up to
\* AWAITING_TAGS and IDLE; a message leaves the phase where it was, moves
\* it one step on or resets it to IDLE, never back and never past a step.
\* 'add task' met in IDLE leaves AWAITING_TITLE, and 'Buy milk' met there
\* leaves AWAITING_DESCRIPTION with the pending title 'Buy milk'.
C8_LinearOrder ==
    /\ request.state = IDLE => Phase \in {IDLE, AWAITING_TITLE, AWAITING_DESCRIPTION}
    /\ request.state \notin {None, IDLE} =>
          Phase \in {request.state, NextPhase(request.state), IDLE}
    /\ request.state = IDLE /\ request.message = Str("add task") =>
          Phase = AWAITING_TITLE /\ Pending = EmptyDict
    /\ request.state = AWAITING_TITLE /\ request.message = Str("Buy milk") =>
          Phase = AWAITING_DESCRIPTION /\ Pending.title = Str("Buy milk")

\* 'Buy milk' answering the question that 'add task' raised
C8_Witness ==
    /\ request.state = AWAITING_TITLE
    /\ request.message = Str("Buy milk")
    /\ ~flow.inline
    /\ Phase = AWAITING_DESCRIPTION
    /\ Pending.title = Str("Buy milk")

\* the tag names of the message '#a #b'
SentTags == <<Str("a"), Str("b")>>
\* the tag and the task are rows, and a row of task_tags joins them
Attached(name, task) ==
    \E i \in DOMAIN db.tags :
       /\ db.tags[i].name = name
       /\ db.tags[i].user_id = user_id
       /\ \E k \in TagsOf(task) : db.task_tags[k].tag_id = db.tags[i].id
\* the request that finalizes with tags, the category and the task not failing
TagsMet ==
    /\ request.state = AWAITING_TAGS
    /\ request.message = Str("#a #b")
    /\ ~request.env.category_fails
    /\ ~request.env.task_fails

FinalizeRaises ==
    /\ request.state = AWAITING_TAGS
    /\ Strip(Lower(request.message)) \notin CancelKeywords
    /\ \/ request.env.task_fails
       \/ /\ request.env.category_fails
          /\ Truthy(request.pending, "new_category_name")
          /\ request.categories = 0

NoDateMet ==
    /\ request.state = AWAITING_DUE_DATE
    /\ Strip(Lower(request.message)) \notin SkipWords \cup CancelKeywords
    /\ Strip(Lower(request.message)) \notin {Str("tomorrow"), Str("next week")}
    /\ parse_natural_date(request.message) = None
    /\ fromisoformat(Replace(request.message, Str("Z"), Str("+00:00"))) = None

\* C10: in phase AWAITING_DUE_DATE a message that is not 'skip' and is no
\* date is answered by an error for that step: the phase stays
\* AWAITING_DUE_DATE and no due date is recorded.
C10_NoDateStays ==
    NoDateMet =>
        /\ Phase = AWAITING_DUE_DATE
        /\ response.type = "error"
        /\ "due_date" \notin DOMAIN Pending

\* 'garbage' met at AWAITING_DUE_DATE: the flow goes on to the recurrence
C10_Witness ==
    /\ NoDateMet
    /\ request.message = Str("garbage")
    /\ Phase = AWAITING_RECURRENCE
    /\ response.type = "guided_step"
    /\ "due_date" \notin DOMAIN Pending

(***************************************************************************)
(* The properties of the actions on rows that exist                        *)
(***************************************************************************)
\* the agent of a request that meets the state as it is now
Agent(language) ==
    [conversation |-> conversation, language |-> language, user_id |-> user_id, db |-> db]
\* the dict without the key
Without(d, key) == [k \in DOMAIN d \ {key} |-> d[k]]
\* the rows of the tasks and subtasks tables that belong to other users
OthersTasks(d) == SelectSeq(d.tasks, LAMBDA t : t.user_id # user_id)
OthersSubtasks(d) ==
    SelectSeq(d.subtasks,
              LAMBDA st : \E k \in 1..Len(d.tasks) :
                             d.tasks[k].id = st.parent_task_id /\ d.tasks[k].user_id # user_id)
\* the ids of the tasks of the user
OwnIds == {db.tasks[k].id : k \in {i \in 1..Len(db.tasks) : db.tasks[i].user_id = user_id}}
\* the values of the action texts that carry a user_id key
WithUserId ==
    {ActionTexts[k].value : k \in {i \in 1..Len(ActionTexts) :
                                      "user_id" \in DOMAIN ActionTexts[i].value}}

\* C11: every domain operation of an action works on the rows of the
\* agent's own user: the rows of other users stay as they were and are not
\* in a reply, a row that is created belongs to the user, and a user_id key
\* in the action changes nothing: the action does what it does without it.
C11_ScopedToUser ==
    /\ OthersTasks(db) = OthersTasks(SeedDb)
    /\ OthersSubtasks(db) = OthersSubtasks(SeedDb)
    /\ \A k \in 1..Len(db.tasks) : db.tasks[k].id > seed.tasks => db.tasks[k].user_id = user_id
    /\ response.type \in {"task_completed", "task_uncompleted", "task_updated",
                          "task_created"} =>
          response.data.task.id \in OwnIds
    /\ response.type \in {"task_list", "search_results"} =>
          \A i \in 1..Len(response.data.tasks) : response.data.tasks[i].id \in OwnIds
    /\ \A action_data \in WithUserId :
          _execute_action(Agent("en"), action_data, ActionEnv(<<>>))
            = _execute_action(Agent("en"), Without(action_data, "user_id"), ActionEnv(<<>>))

\* the completion API asked to complete task 1 with the user_id of the
\* other user: the task of the agent's user is completed
C11_Witness ==
    /\ request.state = IDLE
    /\ request.env.oracle
         = Str("{\"action\": \"complete_task\", \"task_id\": 1, \"user_id\": \"u2\"}")
    /\ response.type = "task_completed"
    /\ \E k \in 1..Len(db.tasks) :
          db.tasks[k].id = 1 /\ db.tasks[k].user_id = user_id /\ db.tasks[k].is_completed

(***************************************************************************)
(* The properties of the requests that meet phase IDLE                     *)
(***************************************************************************)
ReadyText == Str("I'm ready to help you. What would you like to do?")
\* the texts of the completion API in which the span from the first '{' to
\* the last '}' is missing or is not valid JSON, with the reply to each
PlainReplies ==
    << [text |-> Str("Hi there"), en |-> Str("Hi there"), ur |-> Str("Hi there")],
       [text |-> Str("{oops}"), en |-> ReadyText, ur |-> ready_ur],
       [text |-> Str("No {oops} way"), en |-> Str("No  way"), ur |-> Str("No  way")],
       [text |-> Str("} {"), en |-> Str("} {"), ur |-> Str("} {")],
       [text |-> Str("{\"action\": \"fly\"} {\"action\": \"fly\"}"),
        en |-> ReadyText, ur |-> ready_ur],
       [text |-> Str("I can help you manage your tasks"),
        en |-> Str("I can help you manage your tasks"), ur |-> Ur.mukammal] >>
\* those in which the span is a JSON object, with the object
ObjectTexts ==
    << [text |-> Str("Ok {\"action\": \"create_task\", \"title\": \"Pay\"}"),
        value |-> [action |-> "create_task", title |-> Str("Pay")]],
       [text |-> Str("{\"action\": \"fly\"} done"), value |-> [action |-> "fly"]],
       [text |-> Str("{\"action\": \"fly\"}"), value |-> [action |-> "fly"]],
       [text |-> Str("{\"title\": \"x\"}"), value |-> [title |-> Str("x")]] >>
PlainMet(k) ==
    /\ request.state = IDLE
    /\ request.message = OtherMessage
    /\ request.env.oracle = PlainReplies[k].text

ListAction(filter) == <<[action |-> "list_tasks", filter |-> Str(filter)]>>
ExpectedIntents ==
    << <<Str("show me all my tasks"), ListAction("all")>>,
       <<Str("show my tasks"), ListAction("all")>>,
       <<Str("my tasks"), ListAction("all")>>,
       <<Str("Show Completed Tasks"), ListAction("completed")>>,
       <<Str("list done tasks"), ListAction("completed")>>,
       <<Str("view my finished tasks"), ListAction("completed")>>,
       <<Str("show incomplete tasks"), ListAction("incomplete")>>,
       <<Str("list all pending tasks"), ListAction("incomplete")>>,
       <<Str("view active tasks"), ListAction("incomplete")>>,
       <<Str("show me remaining tasks"), ListAction("incomplete")>>,
       <<Str("complete task 5"), <<[action |-> "complete_task", task_id |-> 5]>> >>,
       <<Str("complete task 1"), <<[action |-> "complete_task", task_id |-> 1]>> >>,
       <<Str("delete task 1"), <<[action |-> "delete_task", task_id |-> 1]>> >>,
       <<Str("cancel task #5"), <<[action |-> "delete_task", task_id |-> 5]>> >>,
       <<Str("add task"), <<[action |-> "start_guided_task"]>> >>,
       <<Str("add task buy milk"),
         <<[action |-> "start_guided_task", initial_title |-> Str("buy milk")]>> >>,
       <<Str("foo bar baz"), <<>> >>,
       <<Str("hello"), <<>> >> >>
ExpectedReplies ==
    [action \in {"list_tasks", "complete_task", "delete_task"} |->
       IF action = "list_tasks" THEN {"task_list", "message"}
       ELSE IF action = "complete_task" THEN {"task_completed", "error"}
       ELSE {"task_deleted", "error"}]

UnknownActions ==
    {[action |-> "fly"], [action |-> "archive_task", task_id |-> 1],
     [action |-> "Complete_Task", task_id |-> 1], [task_id |-> 1]}
UnknownMet ==
    /\ request.state = IDLE
    /\ request.message = OtherMessage
    /\ request.env.oracle \in {Str("{\"action\": \"fly\"}"), Str("{\"action\": \"fly\"} done")}

\* C14: an action of a kind that is not one of the eleven gets from
\* _execute_action a reply of type 'error' that says 'Unknown action' and
\* names the kind: nothing is raised, no service is called (the tables stay
\* as they are), and the phase and the pending fields stay as they are.
C14_UnknownAction ==
    /\ \A action_data \in UnknownActions :
          _execute_action(Agent("en"), action_data, Calm)
            = [self |-> Agent("en"),
               reply |-> [type |-> "error",
                          content |-> Text("en", "Unknown action:",
                                           <<DictGet(action_data, "action", None)>>)],
               calls |-> {"_execute_action"}]
    /\ UnknownMet =>
          /\ response.type = "error"
          /\ request.language = "en" =>
                response.response = Text("en", "Unknown action:", <<"fly">>)
          /\ "_execute_action" \in calls
          /\ Phase = request.state
          /\ Pending = request.pending
          /\ Len(db.tasks) = request.tasks

\* the completion API asked for the action 'fly'
C14_Witness ==
    /\ UnknownMet
    /\ request.language = "en"
    /\ response.type = "error"
    /\ response.response = Text("en", "Unknown action:", <<"fly">>)
    /\ calls = {"_call_openrouter", "_execute_action"}

(***************************************************************************)
(* The properties of the actions the completion API asks for               *)
(***************************************************************************)
\* the action of the request, in <<..>>
Asked == _extract_json(request.env.oracle)
ActionMet ==
    /\ request.state = IDLE
    /\ request.message = OtherMessage
    /\ Asked # <<>>
    /\ "action" \in DOMAIN Asked[1]
\* the key that holds the identifier of the action
IdKey(action) ==
    IF action \in {"complete_task", "uncomplete_task", "delete_task", "update_task",
                   "add_subtask"}
    THEN "task_id"
    ELSE IF action \in {"complete_subtask", "delete_subtask"} THEN "subtask_id"
    ELSE IF action = "search_tasks" THEN "query"
    ELSE None
LacksId(action_data) ==
    /\ IdKey(action_data.action) # None
    /\ IdKey(action_data.action) \notin DOMAIN action_data
RequiredWordings ==
    {"Task ID is required.", "Subtask ID is required.", "Search query is required."}

\* C15: an action without its identifier (task_id, subtask_id, query) is
\* answered by a reply of type 'error' that says the field is required; no
\* service is called, and the phase and the pending fields stay as they are.
C15_MissingIdRequired ==
    (ActionMet /\ LacksId(Asked[1])) =>
        /\ response.type = "error"
        /\ request.language = "en" => response.response[2] \in RequiredWordings
        /\ Phase = request.state
        /\ Pending = request.pending
        /\ Len(db.tasks) = request.tasks

\* add_subtask without task_id and with subtask_title null: the reply is
\* that of the exception, not that the task id is required
C15_Witness ==
    /\ ActionMet
    /\ Asked[1] = [action |-> "add_subtask", subtask_title |-> None]
    /\ request.language = "en"
    /\ response.type = "error"
    /\ response.response = Text("en", "Error:", <<"AttributeError">>)
    /\ Phase = request.state

\* ids of the seeded database that are not those of a row of the user: the
\* task and the subtask of the other user, and an id no row has
ForeignIds == {2, 9}
\* the action names a task, or a subtask of a task, that is not the user's
Foreign(action_data) ==
    /\ "action" \in DOMAIN action_data
    /\ IdKey(action_data.action) \in {"task_id", "subtask_id"}
    /\ IdKey(action_data.action) \in DOMAIN action_data
    /\ IF IdKey(action_data.action) = "task_id"
       THEN action_data.task_id \notin OwnIds
       ELSE \A k \in 1..Len(db.subtasks) :
               db.subtasks[k].id = action_data.subtask_id =>
                  db.subtasks[k].parent_task_id \notin OwnIds
ForeignMet ==
    /\ ActionMet
    /\ IdKey(Asked[1].action) \in {"task_id", "subtask_id"}
    /\ IdKey(Asked[1].action) \in DOMAIN Asked[1]
    /\ Asked[1][IdKey(Asked[1].action)] \in ForeignIds
\* what _execute_action does with the action in the state as it is
Refused(action_data) ==
    LET out == _execute_action(Agent("en"), action_data, ActionEnv(<<>>))
    IN /\ out.reply.type = "error"
       /\ out.self = Agent("en")

\* C16: complete_task, uncomplete_task, update_task, delete_task and
\* add_subtask with the id of a task that does not exist or is another
\* user's, and complete_subtask and delete_subtask with the id of a subtask
\* that does not exist or whose task is not the user's, are answered by a
\* reply of type 'error', and every row of every table stays as it is.
C16_ForeignRefused ==
    /\ \A k \in 1..Len(ActionTexts) :
          Foreign(ActionTexts[k].value) => Refused(ActionTexts[k].value)
    /\ ForeignMet =>
          /\ response.type = "error"
          /\ OthersTasks(db) = OthersTasks(SeedDb)
          /\ OthersSubtasks(db) = OthersSubtasks(SeedDb)
          /\ Len(db.tasks) = request.tasks

\* the completion API asked to delete the subtask of the other user's task
C16_Witness ==
    /\ ForeignMet
    /\ Asked[1] = [action |-> "delete_subtask", subtask_id |-> 2]
    /\ request.language = "en"
    /\ response.type = "error"
    /\ response.response = Text("en", "Parent task not found or access denied.", <<>>)
    /\ \E k \in 1..Len(db.subtasks) : db.subtasks[k] = SeedSubtask(2, 2, Str("Hide"))

(***************************************************************************)
(* The properties of the calls of the completion API                       *)
(***************************************************************************)
\* the completion API fails on a message that meets phase IDLE and that the
\* detector leaves to it
OracleFailsMet ==
    /\ request.state = IDLE
    /\ DetectedIntents[request.message] = <<>>
    /\ request.env.oracle_fails

\* C17: when the call of the completion API fails, by its status or by a
\* timeout, on a message that meets phase IDLE, there is that one call and
\* nothing after it: ChatService.process_message returns a reply of type
\* 'error', and the phase and the pending fields are as they were.
C17_OracleFailure ==
    OracleFailsMet =>
        /\ response.type = "error"
        /\ response.data = None
        /\ calls = {"_call_openrouter"}
        /\ Phase = request.state
        /\ Pending = request.pending
        /\ Len(db.tasks) = request.tasks

\* the call timed out
C17_Witness ==
    /\ OracleFailsMet
    /\ request.env.oracle_error = "ReadTimeout"
    /\ response.type = "error"
    /\ calls = {"_call_openrouter"}
    /\ Phase = IDLE

OracleCalls == {"_call_openrouter", "_translate_to_urdu", "_generate_description"}
DetectedMet ==
    /\ request.state = IDLE
    /\ DetectedIntents[request.message] # <<>>

\* C18: a message that meets phase IDLE and that the detector matches is
\* served without a call of the completion API: no completion, no
\* translation and no generation of a description, in both locales.
C18_DetectedWithoutOracle ==
    DetectedMet =>
        /\ calls \cap OracleCalls = {}
        /\ "_execute_action" \in calls

\* 'add task buy milk' in the Urdu locale: the flow starts with the title
C18_Witness ==
    /\ DetectedMet
    /\ request.language = "ur"
    /\ request.message = Str("add task buy milk")
    /\ calls = {"_execute_action"}
    /\ response.type = "guided_step"
    /\ Phase = AWAITING_DESCRIPTION

(***************************************************************************)
(* The properties of the question for the category                         *)
(***************************************************************************)
\* the categories of the user, as the prompt is to list them
OwnCategories == SelectSeq(db.categories, LAMBDA c : c.user_id = user_id)
Offer(categories) ==
    Tuple([i \in 1..Len(categories) |->
             [id |-> categories[i].id, name |-> categories[i].name,
              icon |-> categories[i].icon]])
\* the request that brought the flow to the question for the category
CategoryAsked ==
    /\ request.state = AWAITING_DESCRIPTION
    /\ Phase = AWAITING_CATEGORY
    /\ request.categories >= 1
\* the request that answered it by the number of a category
NumberMet ==
    /\ request.state = AWAITING_CATEGORY
    /\ IsDigit(Strip(request.message))
    /\ ToInt(Strip(request.message)) \in 1..request.categories

\* C19: when the user has categories, the prompt that opens phase
\* AWAITING_CATEGORY offers them as a numbered list, and the reply i records
\* the id of the i-th of them as category_id, to which the task is attached.
C19_NumberedCategories ==
    /\ CategoryAsked =>
          /\ OwnCategories # <<>>
          /\ DictGet(Pending, "_available_categories", <<>>) = Offer(OwnCategories)
    /\ NumberMet =>
          /\ Phase = AWAITING_PRIORITY
          /\ DictGet(Pending, "category_id", 0)
                = OwnCategories[ToInt(Strip(request.message))].id
          /\ "new_category_name" \notin DOMAIN Pending

\* the user has the category WORK and answers 1: no category was offered,
\* and '1' is recorded as the name of a new category
C19_Witness ==
    /\ NumberMet
    /\ request.message = Str("1")
    /\ OwnCategories[1].name = Str("WORK")
    /\ DictGet(request.pending, "_available_categories", <<>>) = <<>>
    /\ Phase = AWAITING_PRIORITY
    /\ "category_id" \notin DOMAIN Pending
    /\ Pending.new_category_name = Str("1")

\* the reply is the name but for the case of its letters
CaseOnly(reply, name) == Lower(Strip(reply)) = Lower(name) /\ Strip(reply) # name
\* the categories the user had when the request came
CategoriesBefore ==
    SelectSeq(SubSeq(db.categories, 1, request.categories), LAMBDA c : c.user_id = user_id)
\* the question for the category is answered by the name of a category of
\* the user in another case
CaseMet ==
    /\ request.state = AWAITING_CATEGORY
    /\ \E k \in 1..Len(CategoriesBefore) :
          CaseOnly(request.message, CategoriesBefore[k].name)
\* the flow that recorded such a name creates its task
CaseFinalized ==
    /\ request.state = AWAITING_TAGS
    /\ response.type = "task_created"
    /\ "new_category_name" \in DOMAIN request.pending
    /\ \E k \in 1..Len(CategoriesBefore) :
          CaseOnly(request.pending.new_category_name, CategoriesBefore[k].name)
\* the reply is recorded as the name of a new category, and no category id
RecordedAsNew ==
    /\ Phase = AWAITING_PRIORITY
    /\ "category_id" \notin DOMAIN Pending
    /\ DictGet(Pending, "new_category_name", <<>>) = Strip(request.message)

Finalized ==
    /\ request.state = AWAITING_TAGS
    /\ "_finalize_guided_task" \in calls

\* C21: the finalization is all or nothing.  When it replies with type
\* 'error', it left no task and no new category; when it left a task, the
\* reply has type 'task_created'.
C21_AllOrNothing ==
    Finalized =>
        /\ response.type = "error" =>
              /\ Len(db.tasks) = request.tasks
              /\ Len(db.categories) = request.categories
        /\ Len(db.tasks) > request.tasks => response.type = "task_created"

\* the category of the flow is created and committed, the insert of the
\* task raises: the reply is the error and the category stays
C21_Witness ==
    /\ Finalized
    /\ request.env.task_fails
    /\ DictGet(request.pending, "new_category_name", <<>>) = Str("work")
    /\ response.type = "error"
    /\ Len(db.tasks) = request.tasks
    /\ Len(db.categories) = request.categories + 1
    /\ db.categories[Len(db.categories)].name = Str("Work")

\* a request that meets a flow and does not reach the finalization, and a
\* request that opens a flow, leave every table as it was
FlowStep ==
    LET before == _get_state(conversation)
    IN /\ before # IDLE /\ "_finalize_guided_task" \notin calls' => db' = db
       /\ before = IDLE /\ _get_state(conversation') # IDLE => db' = db

\* C22: no task, category or tag is created before the finalization.  The
\* name of a new category given at AWAITING_CATEGORY is only stored in the
\* pending fields, so a flow that ends with a cancel keyword at a later
\* phase leaves the tasks, categories and tags as they were when it began.
C22_NothingBeforeFinalization == [][FlowStep]_vars

\* a flow that names a new category is cancelled when asked for the tags,
\* and the tables are those the conversation began with
C22_Witness ==
    /\ CancelMet
    /\ request.state = AWAITING_TAGS
    /\ DictGet(request.pending, "new_category_name", <<>>) = Str("1")
    /\ Phase = IDLE
    /\ db = SeedDb

\* both requests loaded the row in phase p, each before the other committed
BothRead(p) ==
    /\ \A w \in Workers : sessions[w].pc # "closed" /\ sessions[w].overlaps
    /\ \A w \in Workers : _get_state(sessions[w].loaded) = p
\* both agents have run
BothRan == \A w \in Workers : sessions[w].pc \in {"ran", "committed"}
BothCommitted == \A w \in Workers : sessions[w].pc = "committed"
\* the task with that id
TaskOf(id) == CHOOSE t \in {db.tasks[k] : k \in 1..Len(db.tasks)} : t.id = id

\* C23: requests on one conversation are not serialized.  When two requests
\* both read phase AWAITING_TAGS before either commits its state, both run
\* the finalization and the one flow leaves two tasks; when both read the
\* same earlier phase, one of the two transitions is lost: after both
\* commits the flow is one phase further (or cancelled), not two.
C23_Race ==
    /\ BothRead(AWAITING_TAGS) /\ BothRan =>
          /\ \A w \in Workers : sessions[w].finalizes /\ sessions[w].created # 0
          /\ sessions[1].created # sessions[2].created
          /\ TaskOf(sessions[1].created).title = TaskOf(sessions[2].created).title
          /\ BothCommitted => Phase = IDLE
    /\ \A p \in {AWAITING_DESCRIPTION, AWAITING_CATEGORY, AWAITING_PRIORITY,
                  AWAITING_DUE_DATE, AWAITING_RECURRENCE} :
          BothRead(p) /\ BothCommitted =>
              /\ Phase \in {NextPhase(p), IDLE}
              /\ Phase \in {_get_state(sessions[w].after) : w \in Workers}

\* two tasks of the same title left by one flow, and the conversation idle
C23_Witness ==
    /\ BothRead(AWAITING_TAGS)
    /\ BothCommitted
    /\ Len(db.tasks) = 2
    /\ db.tasks[1].title = db.tasks[2].title
    /\ Phase = IDLE

\* 'high' and 'skip' both met AWAITING_PRIORITY: the flow asks for the due date
C23_WitnessLost ==
    /\ BothRead(AWAITING_PRIORITY)
    /\ BothCommitted
    /\ {sessions[w].message : w \in Workers} = {Str("high"), Str("skip")}
    /\ Phase = AWAITING_DUE_DATE

\* the finalization of w has committed its task and the request has not
\* committed the row of the conversation
TaskCommitted(w) ==
    /\ sessions[w].pc = "ran"
    /\ sessions[w].finalizes
    /\ sessions[w].created # 0

\* C24: the state change of a request is persisted atomically with its
\* other effects.  During a finalization no committed state has the new
\* task while the conversation is still in phase AWAITING_TAGS with pending
\* fields, so no second reader finds the flow ready to be finalized again.
C24_AtomicFinalization ==
    \A w \in Workers :
        TaskCommitted(w) =>
            /\ ~(Phase = AWAITING_TAGS /\ Pending # EmptyDict)
            /\ \A v \in Workers \ {w} :
                  sessions[v].pc = "loaded" /\ sessions[v].tasks >= sessions[w].created
                      => _get_state(sessions[v].loaded) # AWAITING_TAGS

\* request 1 has committed its task and not yet the conversation; request 2
\* loaded the row after that, found AWAITING_TAGS and created a second task
C24_Witness ==
    /\ TaskCommitted(1)
    /\ Phase = AWAITING_TAGS
    /\ sessions[2].pc = "ran"
    /\ sessions[2].tasks >= sessions[1].created
    /\ _get_state(sessions[2].loaded) = AWAITING_TAGS
    /\ sessions[2].created > sessions[1].created
    /\ TaskOf(sessions[2].created).title = TaskOf(sessions[1].created).title

\* the completion API answered the request
Answered == request.state = IDLE /\ "_call_openrouter" \in calls
\* what _extract_json finds in its answer
AnswerJson == _extract_json(request.env.oracle)
\* the answer holds no action: the reply is its text, cleaned
TextPath ==
    /\ Answered
    /\ ~(AnswerJson # <<>> /\ "action" \in DOMAIN AnswerJson[1])
\* the answer asks for the action 'fly': the reply is 'Unknown action: fly'
UnknownPath ==
    /\ Answered
    /\ AnswerJson # <<>>
    /\ DictGet(AnswerJson[1], "action", None) = "fly"
\* the number of ASCII letters among the first n characters of the reply
\* before any translation
LettersOfText(n) ==
    CountIn(_clean_json_from_response(Agent(request.language), request.env.oracle),
            n, IsAsciiAlpha)
LettersOfUnknown(n) == CountIn(Str("Unknown action: fly"), n, IsAsciiAlpha)
Translated == "_translate_to_urdu" \in calls

C25_WitnessBelow ==
    /\ TextPath
    /\ request.language = "ur"
    /\ LettersOfText(100) = 7
    /\ ~Translated
    /\ response.response = Str("Hi there")

\* the user asks for a generated description and the call fails
GenerationFails ==
    /\ request.state = AWAITING_DESCRIPTION
    /\ Strip(Lower(request.message)) \notin CancelKeywords
    /\ ShouldGenerate(request.message)
    /\ request.env.description_fails
\* the description that stands in, built from the title of the flow
FallbackDescription ==
    IF request.language = "ur"
    THEN <<"'">> \o request.pending.title \o <<"'">> \o fallback_tail_ur
    ELSE Str("Complete the task: ") \o request.pending.title
\* the same request when the call succeeds
GenerationSucceeds ==
    GuidedDescription([conversation |-> [guided_state |-> request.state,
                                         pending_task_json |-> json_dumps(request.pending)],
                       language |-> request.language, user_id |-> user_id, db |-> db],
                      request.message, Calm)

\* C26: when the user asks for a generated description at
\* AWAITING_DESCRIPTION and the call for it fails, nothing is raised: the
\* fallback description of the locale, built from the title, is stored, the
\* phase is AWAITING_CATEGORY and the reply has type 'guided_step', as when
\* the call succeeds.
C26_DescriptionFallback ==
    GenerationFails =>
        /\ response.type = "guided_step"
        /\ response.type = GenerationSucceeds.reply.type
        /\ Phase = AWAITING_CATEGORY
        /\ Phase = _get_state(GenerationSucceeds.self.conversation)
        /\ Pending.description = FallbackDescription
        /\ Without(Pending, "description")
             = Without(_get_pending_task(GenerationSucceeds.self.conversation), "description")
        /\ "_generate_description" \in calls
        /\ Len(db.tasks) = request.tasks

\* 'write it' in locale 'ur' for the title 'buy milk' while the call fails
C26_Witness ==
    /\ GenerationFails
    /\ request.language = "ur"
    /\ request.message = Str("write it")
    /\ Pending.description = <<"'">> \o Str("buy milk") \o <<"'">> \o fallback_tail_ur
    /\ Phase = AWAITING_CATEGORY

\* the title as the user typed it: the message without the words that ask
\* for the creation, the blanks and the quotes around it
TypedTitle ==
    [message \in TitledMessages |->
        IF message = Str("Add task Buy Milk") THEN Str("Buy Milk") ELSE Str("call mom")]
TitledMet ==
    /\ request.state = IDLE
    /\ request.message \in TitledMessages

\* C27: for a message that asks for a creation and names the title, the
\* detector returns start_guided_task with the title as the user typed it,
\* without the blanks and quotes around it; that text is the title recorded
\* in the pending fields and the title of the task the flow creates.
C27_TitleAsTyped ==
    /\ TitledMet =>
          /\ DetectedIntents[request.message]
               = <<[action |-> "start_guided_task",
                    initial_title |-> TypedTitle[request.message]]>>
          /\ Phase = AWAITING_DESCRIPTION
          /\ Pending.title = TypedTitle[request.message]
          /\ flow.title = TypedTitle[request.message]
    /\ request.state = AWAITING_TAGS /\ response.type = "task_created" =>
          /\ NewTask.title = flow.title
          /\ NewTask.title \in {TypedTitle[message] : message \in TitledMessages}

\* 'Add task Buy Milk' opens a flow for the title 'buy milk'
C27_Witness ==
    /\ TitledMet
    /\ request.message = Str("Add task Buy Milk")
    /\ DetectedIntents[request.message]
         = <<[action |-> "start_guided_task", initial_title |-> Str("buy milk")]>>
    /\ Phase = AWAITING_DESCRIPTION
    /\ Pending.title = Str("buy milk")

\* the task of that flow has the title 'buy milk'
C27_WitnessTask ==
    /\ request.state = AWAITING_TAGS
    /\ response.type = "task_created"
    /\ NewTask.title = Str("buy milk")

\* the methods of the agent that act on a message in phase IDLE
IdleMethods == {"_execute_action", "_call_openrouter", "_translate_to_urdu"}
\* a request that meets a flow and is no cancellation leaves the rows that
\* exist as they are and runs the handler of the step only
MidFlowStep ==
    _get_state(conversation) # IDLE /\ Strip(Lower(request'.message)) \notin CancelKeywords =>
        /\ "_handle_guided_flow" \in calls'
        /\ calls' \cap IdleMethods = {}
        /\ SubSeq(db'.tasks, 1, Len(db.tasks)) = db.tasks
        /\ db'.subtasks = db.subtasks
        /\ response'.type \in {"guided_step", "task_created", "error"}
        /\ response'.type = "task_created" \/ response'.data = None
        /\ _get_state(conversation') \in
              {_get_state(conversation), NextPhase(_get_state(conversation))}

\* C28: while the phase is not IDLE, a message that is no cancel keyword is
\* consumed by the handler of the current step only: the detector, the
\* completion API and _execute_action are not run, nothing is listed,
\* completed, updated or deleted and no task that exists is changed, also
\* when the text is a command such as 'delete task 1'.
C28_MidFlowConsumed == [][MidFlowStep]_vars

\* 'delete task 1' answers the question for the recurrence: task 1 is there
C28_Witness ==
    /\ request.state = AWAITING_RECURRENCE
    /\ request.message = Str("delete task 1")
    /\ Phase = AWAITING_TAGS
    /\ calls = {"_handle_guided_flow"}
    /\ db.tasks = SeedDb.tasks
    /\ response.type = "guided_step"

\* the place of a phase in the flow
PhaseIndex(phase) ==
    CASE phase = AWAITING_TITLE -> 1
      [] phase = AWAITING_DESCRIPTION -> 2
      [] phase = AWAITING_CATEGORY -> 3
      [] phase = AWAITING_PRIORITY -> 4
      [] phase = AWAITING_DUE_DATE -> 5
      [] phase = AWAITING_RECURRENCE -> 6
      [] phase = AWAITING_TAGS -> 7
\* the messages the flow in progress has handled, the blank ones at
\* AWAITING_TITLE not counted
Handled ==
    (IF ~flow.inline /\ flow.title # None THEN 1 ELSE 0) + flow.skips + flow.answers
\* the longest flow: seven messages that are not blank
FlowLength == PhaseIndex(AWAITING_TAGS)

\* C29: in a sequential run a flow ends.  A message met in a phase other
\* than IDLE, unless it is a blank message at AWAITING_TITLE, moves the
\* phase to the next one or to IDLE, never leaves it where it was; so while
\* the flow is in progress the phase is as many places ahead as messages
\* were handled, and the seventh such message at the latest leaves IDLE.
C29_FlowTerminates ==
    /\ request.state \notin {None, IDLE} /\ ~IsBlank(request.state, request.message) =>
          /\ Phase # request.state
          /\ Phase \in {NextPhase(request.state), IDLE}
    /\ request.state \notin {None, IDLE, AWAITING_TITLE} => Phase # request.state
    /\ Phase # IDLE =>
          /\ PhaseIndex(Phase) = (IF flow.inline THEN 2 ELSE 1) + Handled
          /\ Handled < FlowLength
    /\ request.state = AWAITING_TAGS => Phase = IDLE

\* the seventh message of a flow that 'add task' opened: the flow is over
C29_Witness ==
    /\ request.state = AWAITING_TAGS
    /\ ~flow.inline
    /\ Handled = FlowLength
    /\ Phase = IDLE

\* the rows of the conversations of a user, and the messages of a conversation
RowsOf(c, owner) ==
    {k \in 1..Len(c.conversations) : c.conversations[k].user_id = owner}
MessagesOf(c, conversation_id) ==
    SelectSeq(c.messages, LAMBDA m : m.conversation_id = conversation_id)
Owners(c, conversation_id) ==
    {c.conversations[k].user_id : k \in SelectedById(c, None, conversation_id)}

\* a row is as it was: its owner, its phase and its pending fields
SameRow(before, after) ==
    /\ after.id = before.id
    /\ after.user_id = before.user_id
    /\ after.guided_state = before.guided_state
    /\ get_pending_task(after) = get_pending_task(before)

\* C30: a request that names a conversation that does not exist or belongs
\* to another user fails with 'Conversation not found or access denied' and
\* writes nothing: the conversations, the messages and the tasks are as
\* before and no agent runs; a request that names no such conversation is
\* answered; and whatever the request, the conversations of the other users
\* and their messages are as before.
AccessStep ==
    /\ chats'.reply.status = 404 <=>
           /\ chats'.reply.conversation_id # 0
           /\ chats'.reply.user_id \notin Owners(chats, chats'.reply.conversation_id)
    /\ chats'.reply.status = 404 =>
           /\ chats'.reply.detail = "Conversation not found or access denied"
           /\ Len(chats'.conversations) = Len(chats.conversations)
           /\ \A k \in 1..Len(chats.conversations) :
                  SameRow(chats.conversations[k], chats'.conversations[k])
           /\ chats'.messages = chats.messages
           /\ db' = db
           /\ calls' = {}
    /\ \A owner \in Users \ {chats'.reply.user_id} :
           /\ RowsOf(chats', owner) = RowsOf(chats, owner)
           /\ \A k \in RowsOf(chats, owner) :
                  /\ SameRow(chats.conversations[k], chats'.conversations[k])
                  /\ MessagesOf(chats', chats.conversations[k].id)
                         = MessagesOf(chats, chats.conversations[k].id)
           /\ \A t \in 1..Len(db.tasks) :
                  db.tasks[t].user_id = owner => db'.tasks[t] = db.tasks[t]
    /\ \A t \in (Len(db.tasks) + 1)..Len(db'.tasks) :
           db'.tasks[t].user_id = chats'.reply.user_id

C30_AccessDenied == [][AccessStep]_vars

\* a user was refused on a conversation of the other user that is in the
\* middle of a flow and has messages
C30_Witness ==
    /\ chats.reply.status = 404
    /\ chats.reply.user_id = user_id
    /\ \E k \in RowsOf(chats, other_user_id) :
          /\ chats.conversations[k].id = chats.reply.conversation_id
          /\ chats.conversations[k].guided_state = AWAITING_PRIORITY
          /\ Len(MessagesOf(chats, chats.conversations[k].id)) >= 2
          /\ DictGet(get_pending_task(chats.conversations[k]), "title", None) # None

\* a user finalized a flow while the other user has a conversation
C30_WitnessFinalized ==
    /\ chats.reply.status = 200
    /\ response.type = "task_created"
    /\ Len(db.tasks) = 1
    /\ RowsOf(chats, user_id) # {}
    /\ RowsOf(chats, other_user_id) # {}

\* and a user was refused on the id of no conversation
C30_WitnessAbsent ==
    /\ chats.reply.status = 404
    /\ Owners(chats, chats.reply.conversation_id) = {}
    /\ chats.conversations # <<>>

====
